--------------------------- MODULE DocNodesProofs ---------------------------
(***************************************************************************)
(* Proofs about DocNodes, for any kinds that a program registers and any   *)
(* trees it builds: the maps of a manager agree, wherever a call throws,   *)
(* and a child of its parent's configuration is of a registered kind.      *)
(*                                                                         *)
(* Neither is inductive.  A registration is of a manager that there is     *)
(* only if the loop that is left names one, and a child is registered only *)
(* because it was allowed and allowed kinds are known: the first part of   *)
(* the second rests on the first.  Inv says both, and the shape of what is *)
(* pending.                                                                *)
(***************************************************************************)
EXTENDS DocNodes, SequenceTheorems, TLAPS

Definitions == [docNodeKind : STRING, constructor : STRING]
IsRegistration(r) ==
  r = [constructor |-> r.constructor, packageName |-> r.packageName,
       allowedChildKinds |-> r.allowedChildKinds]

ManagerOK(m) ==
  /\ m = [byKind |-> m.byKind, byConstructor |-> m.byConstructor]
  /\ m.byKind = [k \in DOMAIN m.byKind |-> m.byKind[k]]
  /\ \A k \in DOMAIN m.byKind : IsRegistration(m.byKind[k])

\* What the program can rely on in a manager that it finds
HasBuiltIns(m) ==
  \A kind \in BuiltInKinds :
    IsRegistered(m, kind) /\ m.byKind[kind].packageName = "@microsoft/tsdoc"
ManagersOK ==
  /\ managers = [c \in Configurations |-> managers[c]]
  /\ \A c \in Configurations :
       ManagerOK(managers[c]) /\ ManagerAgrees(managers[c]) /\ HasBuiltIns(managers[c])

Kinds == {node.kind : node \in Made} \union {"Paragraph"}
NodeType == [kind : Kinds, configuration : Configurations, children : Seq(Nat)]
NodesOK ==
  /\ nodes \in Seq(NodeType)
  /\ \A n \in Heap : \A i \in DOMAIN nodes[n].children : nodes[n].children[i] \in Heap

\* What is left of a loop
Step ==
  [op : {"register"}, configuration : Configurations, definition : Definitions]
    \union [op : {"allow"}, configuration : Configurations, parentKind : STRING,
            childKind : STRING]
    \union [op : {"append", "inParagraph"}, to : Heap, node : Heap]
PendingOK == pending \in Seq(Step)

Inv == ManagersOK /\ NodesOK /\ PendingOK /\ ChildrenAreRegistered

\* A manager only gets more kinds.
Grows(m, n) == DOMAIN m.byKind \subseteq DOMAIN n.byKind

-----------------------------------------------------------------------------
\* A definition that passes the checks can be added.
LEMMA RegisterAgrees ==
  ASSUME NEW m, ManagerOK(m), ManagerAgrees(m), HasBuiltIns(m),
         NEW d \in Definitions, CanRegister(m, d)
  PROVE  LET n == Register(m, "package", d) IN
         ManagerOK(n) /\ ManagerAgrees(n) /\ HasBuiltIns(n) /\ Grows(m, n)
<1> DEFINE n == Register(m, "package", d)
           new == [constructor |-> d.constructor, packageName |-> "package",
                   allowedChildKinds |-> {}]
<1>1. /\ n = [byKind |-> n.byKind, byConstructor |-> n.byConstructor]
      /\ n.byKind = [k \in DOMAIN m.byKind \union {d.docNodeKind} |->
                       IF k = d.docNodeKind THEN new ELSE m.byKind[k]]
      /\ n.byConstructor = [k \in DOMAIN m.byConstructor \union {d.constructor} |->
                              IF k = d.constructor THEN d.docNodeKind ELSE m.byConstructor[k]]
  BY DEF Register, Set
<1>2. /\ IsRegistration(new)
      /\ new.constructor = d.constructor
      /\ new.allowedChildKinds = {}
  BY DEF IsRegistration
<1> HIDE DEF n, new
<1>3. d.docNodeKind \notin DOMAIN m.byKind /\ d.constructor \notin DOMAIN m.byConstructor
  BY DEF CanRegister, IsRegistered
<1>4. /\ DOMAIN n.byKind = DOMAIN m.byKind \union {d.docNodeKind}
      /\ n.byKind[d.docNodeKind] = new
      /\ \A k \in DOMAIN m.byKind : n.byKind[k] = m.byKind[k]
  BY <1>1, <1>3
<1>5. /\ DOMAIN n.byConstructor = DOMAIN m.byConstructor \union {d.constructor}
      /\ n.byConstructor[d.constructor] = d.docNodeKind
      /\ \A k \in DOMAIN m.byConstructor : n.byConstructor[k] = m.byConstructor[k]
  BY <1>1, <1>3
<1>6. ManagerOK(n)
  BY <1>1, <1>2, <1>4 DEF ManagerOK
<1>7. ManagerAgrees(n)
  <2>1. ASSUME NEW k \in DOMAIN n.byKind
        PROVE  /\ n.byKind[k].constructor \in DOMAIN n.byConstructor
               /\ n.byConstructor[n.byKind[k].constructor] = k
               /\ n.byKind[k].allowedChildKinds \subseteq DOMAIN n.byKind
    BY <1>2, <1>4, <1>5 DEF ManagerAgrees
  <2>2. ASSUME NEW class \in DOMAIN n.byConstructor
        PROVE  /\ n.byConstructor[class] \in DOMAIN n.byKind
               /\ n.byKind[n.byConstructor[class]].constructor = class
    BY <1>2, <1>4, <1>5 DEF ManagerAgrees
  <2>3. QED
    BY <2>1, <2>2 DEF ManagerAgrees
<1>8. HasBuiltIns(n) /\ Grows(m, n)
  BY <1>4 DEF HasBuiltIns, Grows, IsRegistered
<1>9. QED
  BY <1>6, <1>7, <1>8 DEF n

\* A known kind can be allowed as the child of a known kind.
LEMMA AllowAgrees ==
  ASSUME NEW m, ManagerOK(m), ManagerAgrees(m), HasBuiltIns(m),
         NEW parentKind \in STRING, NEW childKind \in STRING, CanAllow(m, parentKind, childKind)
  PROVE  LET n == Allow(m, parentKind, childKind) IN
         ManagerOK(n) /\ ManagerAgrees(n) /\ HasBuiltIns(n) /\ Grows(m, n)
<1> DEFINE n == Allow(m, parentKind, childKind)
<1>1. parentKind \in DOMAIN m.byKind /\ childKind \in DOMAIN m.byKind
  BY DEF CanAllow, IsRegistered
<1>2. n = [m EXCEPT !.byKind = [m.byKind EXCEPT ![parentKind] =
             [m.byKind[parentKind] EXCEPT !.allowedChildKinds = @ \union {childKind}]]]
  BY DEF Allow
<1> HIDE DEF n
<1>3. /\ n = [byKind |-> n.byKind, byConstructor |-> n.byConstructor]
      /\ n.byConstructor = m.byConstructor
      /\ n.byKind = [m.byKind EXCEPT ![parentKind] =
             [m.byKind[parentKind] EXCEPT !.allowedChildKinds = @ \union {childKind}]]
  BY <1>2 DEF ManagerOK
<1>4. /\ DOMAIN n.byKind = DOMAIN m.byKind
      /\ n.byKind = [k \in DOMAIN n.byKind |-> n.byKind[k]]
      /\ \A k \in DOMAIN m.byKind : k # parentKind => n.byKind[k] = m.byKind[k]
      /\ n.byKind[parentKind] =
           [m.byKind[parentKind] EXCEPT !.allowedChildKinds = @ \union {childKind}]
  BY <1>1, <1>3 DEF ManagerOK
<1>5. /\ IsRegistration(n.byKind[parentKind])
      /\ n.byKind[parentKind].constructor = m.byKind[parentKind].constructor
      /\ n.byKind[parentKind].packageName = m.byKind[parentKind].packageName
      /\ n.byKind[parentKind].allowedChildKinds
           = m.byKind[parentKind].allowedChildKinds \union {childKind}
  BY <1>1, <1>4 DEF ManagerOK, IsRegistration
<1>6. ManagerOK(n)
  BY <1>3, <1>4, <1>5 DEF ManagerOK
<1>7. ManagerAgrees(n)
  <2>1. ASSUME NEW k \in DOMAIN n.byKind
        PROVE  /\ n.byKind[k].constructor \in DOMAIN n.byConstructor
               /\ n.byConstructor[n.byKind[k].constructor] = k
               /\ n.byKind[k].allowedChildKinds \subseteq DOMAIN n.byKind
    BY <1>1, <1>3, <1>4, <1>5 DEF ManagerAgrees
  <2>2. ASSUME NEW class \in DOMAIN n.byConstructor
        PROVE  /\ n.byConstructor[class] \in DOMAIN n.byKind
               /\ n.byKind[n.byConstructor[class]].constructor = class
    BY <1>1, <1>3, <1>4, <1>5 DEF ManagerAgrees
  <2>3. QED
    BY <2>1, <2>2 DEF ManagerAgrees
<1>8. HasBuiltIns(n) /\ Grows(m, n)
  BY <1>4, <1>5 DEF HasBuiltIns, Grows, IsRegistered
<1>9. QED
  BY <1>6, <1>7, <1>8 DEF n

\* The built-in kinds agree.
LEMMA BuiltInAgrees ==
  ManagerOK(BuiltInManager) /\ ManagerAgrees(BuiltInManager) /\ HasBuiltIns(BuiltInManager)
<1> DEFINE m == BuiltInManager
<1>1. /\ m = [byKind |-> m.byKind, byConstructor |-> m.byConstructor]
      /\ m.byKind = [kind \in BuiltInKinds |-> BuiltInDefinition(kind)]
      /\ m.byConstructor = [class \in BuiltInKinds |-> class]
  BY DEF BuiltInManager
<1>2. ASSUME NEW kind \in BuiltInKinds
      PROVE  /\ IsRegistration(BuiltInDefinition(kind))
             /\ BuiltInDefinition(kind).constructor = kind
             /\ BuiltInDefinition(kind).packageName = "@microsoft/tsdoc"
             /\ BuiltInDefinition(kind).allowedChildKinds \subseteq BuiltInKinds
  <2>1. SectionKinds \subseteq BuiltInKinds /\ ParagraphKinds \subseteq BuiltInKinds
    BY DEF SectionKinds, ParagraphKinds, BuiltInKinds
  <2>2. QED
    BY <2>1 DEF BuiltInDefinition, IsRegistration
<1> HIDE DEF m
<1>3. QED
  BY <1>1, <1>2 DEF m, ManagerOK, ManagerAgrees, HasBuiltIns, IsRegistered

\* At first two managers have the built-in kinds, and there is no node.
LEMMA InitInv == Init => Inv
<1> SUFFICES ASSUME Init PROVE Inv
  OBVIOUS
<1>1. ManagersOK
  BY BuiltInAgrees DEF Init, ManagersOK
<1>2. nodes = <<>> /\ pending = <<>>
  BY DEF Init
<1>3. QED
  BY <1>1, <1>2 DEF Inv, NodesOK, PendingOK, ChildrenAreRegistered, Heap

\* The heap is an array of nodes.
LEMMA HeapFacts ==
  ASSUME NodesOK
  PROVE  /\ Len(nodes) \in Nat /\ Heap = 1 .. Len(nodes)
         /\ \A n \in Heap :
              /\ n \in Nat /\ nodes[n] \in NodeType
              /\ nodes[n].kind \in Kinds /\ nodes[n].configuration \in Configurations
              /\ nodes[n].children \in Seq(Nat)
<1>1. nodes \in Seq(NodeType)
  BY DEF NodesOK
<1>2. Len(nodes) \in Nat /\ Heap = 1 .. Len(nodes)
  BY <1>1 DEF Heap
<1>3. ASSUME NEW n \in Heap PROVE n \in Nat /\ nodes[n] \in NodeType
  BY <1>1, <1>2
<1>4. QED
  BY <1>2, <1>3 DEF NodeType

\* What Append() does to the members of a sequence.
LEMMA AppendMembers ==
  ASSUME NEW S, NEW s \in Seq(S), NEW e \in S
  PROVE  /\ Append(s, e) \in Seq(S)
         /\ \A i \in DOMAIN Append(s, e) :
              (i \in DOMAIN s /\ Append(s, e)[i] = s[i]) \/ Append(s, e)[i] = e
<1>1. /\ Append(s, e) \in Seq(S)
      /\ Len(s) \in Nat /\ DOMAIN s = 1 .. Len(s) /\ DOMAIN Append(s, e) = 1 .. Len(s) + 1
      /\ \A i \in 1 .. Len(s) : Append(s, e)[i] = s[i]
      /\ Append(s, e)[Len(s) + 1] = e
  OBVIOUS
<1>2. \A i \in 1 .. Len(s) + 1 : i \in 1 .. Len(s) \/ i = Len(s) + 1
  BY <1>1
<1>3. QED
  BY <1>1, <1>2

\* A list of nodes is a sequence.
LEMMA ListsAreSequences ==
  ASSUME NEW l \in {<<>>} \union Lists
  PROVE  l \in Seq(Heap) /\ \A i \in DOMAIN l : l[i] \in Heap
<1>1. CASE l = <<>>
  BY <1>1
<1>2. CASE l \in {<<n>> : n \in Heap}
  <2>1. PICK n \in Heap : l = <<n>>
    BY <1>2
  <2>2. QED
    BY <2>1
<1>3. CASE l \in {<<n, m>> : n, m \in Heap}
  <2>1. PICK n \in Heap, m \in Heap : l = <<n, m>>
    BY <1>3
  <2>2. QED
    BY <2>1
<1>4. QED
  BY <1>1, <1>2, <1>3 DEF Lists

\* A child is on the heap.
LEMMA ChildIsNode ==
  ASSUME NodesOK, NEW n \in Heap, NEW child \in Children(n)
  PROVE  child \in Heap /\ nodes[child] \in NodeType
<1>1. PICK i \in DOMAIN nodes[n].children : child = nodes[n].children[i]
  BY DEF Children, ToSet
<1>2. child \in Heap
  BY <1>1 DEF NodesOK
<1>3. QED
  BY <1>2, HeapFacts

\* A manager that grows leaves the other managers, and the trees, as they should be.
LEMMA ManagerGrows ==
  ASSUME Inv, NEW c \in Configurations, NEW m, ManagerOK(m), ManagerAgrees(m), HasBuiltIns(m),
         Grows(managers[c], m), managers' = [managers EXCEPT ![c] = m], UNCHANGED nodes
  PROVE  ManagersOK' /\ NodesOK' /\ ChildrenAreRegistered'
<1>1. /\ managers' = [d \in Configurations |-> managers'[d]]
      /\ managers'[c] = m
      /\ \A d \in Configurations : d # c => managers'[d] = managers[d]
  BY DEF Inv, ManagersOK
<1>2. ManagersOK'
  BY <1>1 DEF Inv, ManagersOK
<1>3. \A d \in Configurations : Grows(managers[d], managers'[d])
  BY <1>1 DEF Grows
<1>4. NodesOK'
  BY DEF Inv, NodesOK, Heap
<1>5. ChildrenAreRegistered'
  <2>1. \A n \in Heap : \A child \in Children(n) :
          child \in Heap /\ nodes[child].configuration \in Configurations
    BY ChildIsNode DEF Inv, NodeType
  <2>2. QED
    BY <1>3, <2>1 DEF Inv, ChildrenAreRegistered, Heap, Children, Grows, IsRegistered
<1>6. QED
  BY <1>2, <1>4, <1>5

\* A loop begins with steps of its own kind, and ends or goes on with what is left.
LEMMA TailOfPending ==
  ASSUME PendingOK, ~Idle
  PROVE  Head(pending) \in Step /\ Tail(pending) \in Seq(Step) /\ <<>> \in Seq(Step)
BY DEF PendingOK, Idle

\* registerDocNodes() begins: its list is pending.
LEMMA RegisterDocNodesInv ==
  ASSUME Inv, NEW c \in Extended, NEW l \in DefinitionLists, RegisterDocNodes(c, l)
  PROVE  Inv'
<1>1. c \in Configurations /\ l \in Seq(Definitions)
  BY ConfigurationsAssumption, ListsAssumption DEF Definitions
<1>2. pending' \in Seq(Step)
  BY <1>1 DEF RegisterDocNodes, Step
<1>3. PendingOK'
  BY <1>2 DEF RegisterDocNodes, PendingOK, Step, Heap
<1>4. QED
  BY <1>3 DEF RegisterDocNodes, Inv, ManagersOK, NodesOK, ChildrenAreRegistered, Heap, Children

\* registerAllowableChildren() begins: its list is pending.
LEMMA RegisterAllowableChildrenInv ==
  ASSUME Inv, NEW c \in Extended, NEW l \in ChildLists,
         RegisterAllowableChildren(c, l[1], l[2])
  PROVE  Inv'
<1>1. c \in Configurations /\ l[1] \in STRING /\ l[2] \in Seq(STRING)
  BY ConfigurationsAssumption, ListsAssumption
<1>2. pending' \in Seq(Step)
  BY <1>1 DEF RegisterAllowableChildren, Step
<1>3. PendingOK'
  BY <1>2 DEF RegisterAllowableChildren, PendingOK, Step, Heap
<1>4. QED
  BY <1>3 DEF RegisterAllowableChildren, Inv, ManagersOK, NodesOK, ChildrenAreRegistered, Heap,
              Children

\* What is left of a loop stays as it is while the nodes do.
LEMMA PendingStays ==
  ASSUME pending' \in Seq(Step), UNCHANGED nodes
  PROVE  PendingOK'
BY DEF PendingOK, Step, Heap

\* One definition is registered, or throws and leaves both maps as they were.
LEMMA RegisterNextInv ==
  ASSUME Inv, RegisterNext
  PROVE  Inv'
<1> DEFINE step == Head(pending)
           m == managers[step.configuration]
<1>1. step \in Step /\ Tail(pending) \in Seq(Step) /\ <<>> \in Seq(Step)
  BY TailOfPending DEF RegisterNext, Inv
<1>2. step.configuration \in Configurations /\ step.definition \in Definitions
  BY <1>1 DEF RegisterNext, Step
<1>3. pending' \in Seq(Step) /\ UNCHANGED nodes
  BY <1>1 DEF RegisterNext, Continue, Throw
<1>4. PendingOK'
  BY <1>3, PendingStays
<1>5. CASE CanRegister(m, step.definition)
  <2>1. managers' = [managers EXCEPT ![step.configuration] =
                       Register(m, "package", step.definition)]
    BY <1>5 DEF RegisterNext
  <2>2. ManagerOK(m) /\ ManagerAgrees(m) /\ HasBuiltIns(m)
    BY <1>2 DEF Inv, ManagersOK
  <2> HIDE DEF step
  <2>3. QED
    BY <1>2, <1>3, <1>4, <1>5, <2>1, <2>2, RegisterAgrees, ManagerGrows DEF Inv
<1>6. CASE ~CanRegister(m, step.definition)
  <2>1. UNCHANGED managers
    BY <1>6 DEF RegisterNext
  <2>2. QED
    BY <1>3, <1>4, <2>1 DEF Inv, ManagersOK, NodesOK, ChildrenAreRegistered, Heap, Children
<1>7. QED
  BY <1>5, <1>6

\* One child kind is allowed, of a kind that is registered, or the call throws.
LEMMA AllowNextInv ==
  ASSUME Inv, AllowNext
  PROVE  Inv'
<1> DEFINE step == Head(pending)
           m == managers[step.configuration]
<1>1. step \in Step /\ Tail(pending) \in Seq(Step) /\ <<>> \in Seq(Step)
  BY TailOfPending DEF AllowNext, Inv
<1>2. /\ step.configuration \in Configurations
      /\ step.parentKind \in STRING /\ step.childKind \in STRING
  BY <1>1 DEF AllowNext, Step
<1>3. pending' \in Seq(Step) /\ UNCHANGED nodes
  BY <1>1 DEF AllowNext, Continue, Throw
<1>4. PendingOK'
  BY <1>3, PendingStays
<1>5. CASE CanAllow(m, step.parentKind, step.childKind)
  <2>1. managers' = [managers EXCEPT ![step.configuration] =
                       Allow(m, step.parentKind, step.childKind)]
    BY <1>5 DEF AllowNext
  <2>2. ManagerOK(m) /\ ManagerAgrees(m) /\ HasBuiltIns(m)
    BY <1>2 DEF Inv, ManagersOK
  <2> HIDE DEF step
  <2>3. QED
    BY <1>2, <1>3, <1>4, <1>5, <2>1, <2>2, AllowAgrees, ManagerGrows DEF Inv
<1>6. CASE ~CanAllow(m, step.parentKind, step.childKind)
  <2>1. UNCHANGED managers
    BY <1>6 DEF AllowNext
  <2>2. QED
    BY <1>3, <1>4, <2>1 DEF Inv, ManagersOK, NodesOK, ChildrenAreRegistered, Heap, Children
<1>7. QED
  BY <1>5, <1>6

-----------------------------------------------------------------------------
\* Nodes stay what they are, and a child is one that was there or is of a registered kind.
LEMMA NodesChange ==
  ASSUME Inv, UNCHANGED managers, NodesOK', pending' \in Seq(Step),
         Heap \subseteq Heap',
         \A n \in Heap : /\ nodes'[n].kind = nodes[n].kind
                         /\ nodes'[n].configuration = nodes[n].configuration,
         \A n \in Heap' : \A child \in Children(n)' :
           \/ n \in Heap /\ child \in Children(n)
           \/ /\ nodes'[child].configuration = nodes'[n].configuration
              => IsRegistered(managers[nodes'[n].configuration], nodes'[child].kind)
  PROVE  Inv'
<1>1. ManagersOK'
  BY DEF Inv, ManagersOK
<1>2. Step \subseteq Step'
  BY DEF Step
<1>3. PendingOK'
  BY <1>2 DEF PendingOK
<1>4. ASSUME NEW n \in Heap', NEW child \in Children(n)',
             nodes'[child].configuration = nodes'[n].configuration
      PROVE  IsRegistered(managers[nodes'[child].configuration], nodes'[child].kind)
  <2>1. CASE n \in Heap /\ child \in Children(n)
    <3>1. child \in Heap
      BY <2>1, ChildIsNode DEF Inv
    <3>2. QED
      BY <1>4, <2>1, <3>1 DEF Inv, ChildrenAreRegistered
  <2>2. CASE ~(n \in Heap /\ child \in Children(n))
    BY <1>4, <2>2
  <2>3. QED
    BY <2>1, <2>2
<1>5. ChildrenAreRegistered'
  BY <1>4 DEF ChildrenAreRegistered
<1>6. QED
  BY <1>1, <1>3, <1>5 DEF Inv

\* What is allowed in a container is registered, with its configuration.
LEMMA TakesRegistered ==
  ASSUME ManagersOK, NEW kind, NEW c \in Configurations, NEW child, Takes(kind, c, child)
  PROVE  IsRegistered(managers[c], nodes[child].kind)
BY DEF ManagersOK, ManagerAgrees, Takes, IsAllowedChild, IsRegistered

\* A new node has no children.
LEMMA NewNodeInv ==
  ASSUME Inv, NEW node \in Made, NEW l \in {<<>>} \union Lists,
         NewNode(node.kind, node.configuration, l)
  PROVE  Inv'
<1> DEFINE new == Node(node.kind, node.configuration, l)
<1>1. l \in Seq(Heap) /\ \A i \in DOMAIN l : l[i] \in Heap
  BY ListsAreSequences
<1>2. Heap = 1 .. Len(nodes) /\ Len(nodes) \in Nat /\ nodes \in Seq(NodeType)
  BY DEF Inv, NodesOK, Heap
<1>3. l \in Seq(Nat)
  BY <1>1, <1>2
<1>4. /\ new.kind = node.kind /\ new.configuration = node.configuration
      /\ new.children = l /\ node.configuration \in Configurations
      /\ new \in NodeType
  BY <1>3, MadeAssumption DEF Node, NodeType, Kinds
<1>5. /\ nodes' = Append(nodes, new)
      /\ UNCHANGED <<managers, pending>>
      /\ \A i \in DOMAIN l : Takes(node.kind, node.configuration, l[i])
  BY DEF NewNode
<1> HIDE DEF new
<1>6. /\ nodes' \in Seq(NodeType)
      /\ Heap' = 1 .. Len(nodes) + 1
      /\ \A n \in Heap : nodes'[n] = nodes[n]
      /\ nodes'[Len(nodes) + 1] = new
  BY <1>2, <1>4, <1>5 DEF Heap
<1>7. Heap \subseteq Heap' /\ \A n \in Heap' : n \in Heap \/ n = Len(nodes) + 1
  BY <1>2, <1>6
<1>8. NodesOK'
  <2>1. \A n \in Heap' : \A i \in DOMAIN nodes'[n].children : nodes'[n].children[i] \in Heap
    BY <1>1, <1>4, <1>6, <1>7 DEF Inv, NodesOK
  <2>2. QED
    BY <1>6, <1>7, <2>1 DEF NodesOK
<1>9. ASSUME NEW n \in Heap', NEW child \in Children(n)', n \notin Heap
      PROVE  IsRegistered(managers[nodes'[n].configuration], nodes'[child].kind)
  <2>1. PICK i \in DOMAIN l : child = l[i]
    BY <1>4, <1>6, <1>7, <1>9 DEF Children, ToSet
  <2>2. IsRegistered(managers[node.configuration], nodes[child].kind)
    BY <1>4, <1>5, <2>1, TakesRegistered DEF Inv
  <2>3. QED
    BY <1>1, <1>4, <1>6, <1>7, <1>9, <2>1, <2>2
<1>10. \A n \in Heap : Children(n)' = Children(n)
  BY <1>6 DEF Children
<1>11. pending' \in Seq(Step)
  BY <1>5 DEF Inv, PendingOK
<1>12. QED
  BY <1>5, <1>6, <1>7, <1>8, <1>9, <1>10, <1>11, NodesChange

\* appendNodes() begins: its list is pending.
LEMMA AppendNodesInv ==
  ASSUME Inv, NEW n \in Heap, NEW l \in Lists, NEW op \in {"append", "inParagraph"},
         AppendNodes(n, l, op)
  PROVE  Inv'
<1>1. l \in Seq(Heap)
  BY ListsAreSequences
<1>2. \A i \in DOMAIN l : [op |-> op, to |-> n, node |-> l[i]] \in Step
  BY <1>1 DEF Step
<1>3. pending' \in Seq(Step) /\ UNCHANGED <<managers, nodes>>
  BY <1>1, <1>2 DEF AppendNodes
<1>4. PendingOK'
  BY <1>3, PendingStays
<1>5. QED
  BY <1>3, <1>4 DEF Inv, ManagersOK, NodesOK, ChildrenAreRegistered, Heap, Children

\* A node gets other children.
WithChildren(to, list) == [nodes EXCEPT ![to].children = list]
\* A change of one list of children leaves the other nodes as they were.
LEMMA ChildrenChange ==
  ASSUME NodesOK, NEW to \in Heap, NEW list \in Seq(Nat)
  PROVE  LET heap == WithChildren(to, list) IN
         /\ heap \in Seq(NodeType) /\ DOMAIN heap = Heap
         /\ \A n \in Heap : /\ heap[n].kind = nodes[n].kind
                            /\ heap[n].configuration = nodes[n].configuration
         /\ \A n \in Heap \ {to} : heap[n] = nodes[n]
         /\ heap[to].children = list
<1>1. /\ nodes \in Seq(NodeType) /\ Heap = 1 .. Len(nodes) /\ Len(nodes) \in Nat
      /\ nodes[to] \in NodeType
  BY HeapFacts DEF NodesOK
<1> DEFINE heap == WithChildren(to, list)
           new == [nodes[to] EXCEPT !.children = list]
<1>2. /\ new \in NodeType
      /\ new.kind = nodes[to].kind /\ new.configuration = nodes[to].configuration
      /\ new.children = list
  BY <1>1 DEF NodeType
<1>3. heap = [nodes EXCEPT ![to] = new]
  BY DEF WithChildren
<1> HIDE DEF new, heap
<1>4. heap \in Seq(NodeType)
  <2>1. to \in 1 .. Len(nodes)
    BY <1>1
  <2>2. nodes \in Seq(NodeType) /\ new \in NodeType
    BY <1>1, <1>2
  <2>3. [nodes EXCEPT ![to] = new] \in Seq(NodeType)
    BY <2>1, <2>2, ExceptSeq
  <2>4. QED
    BY <1>3, <2>3
<1>5. DOMAIN heap = Heap /\ heap[to] = new /\ \A n \in Heap : n # to => heap[n] = nodes[n]
  BY <1>3 DEF Heap
<1>6. QED
  BY <1>2, <1>4, <1>5 DEF heap

\* appendNode() keeps the invariant, as one step of a loop.
LEMMA AppendNodeInv ==
  ASSUME Inv, NEW to \in Heap, NEW child \in Heap, ~Idle, AppendNode(to, child),
         UNCHANGED managers
  PROVE  Inv'
<1>1. Tail(pending) \in Seq(Step) /\ <<>> \in Seq(Step)
  BY TailOfPending DEF Inv
<1>2. CASE Takes(nodes[to].kind, nodes[to].configuration, child)
  <2>1. /\ nodes' = [nodes EXCEPT ![to].children = Append(@, child)]
        /\ pending' \in Seq(Step)
    BY <1>1, <1>2 DEF AppendNode, Continue
  <2>2. /\ child \in Nat /\ nodes[to].configuration \in Configurations
        /\ nodes[to].children \in Seq(Nat)
    BY HeapFacts DEF Inv
  <2>9. Append(nodes[to].children, child) \in Seq(Nat)
    BY <2>2, AppendMembers
  <2>3. /\ nodes' \in Seq(NodeType) /\ Heap' = Heap
        /\ \A n \in Heap : /\ nodes'[n].kind = nodes[n].kind
                           /\ nodes'[n].configuration = nodes[n].configuration
        /\ \A n \in Heap \ {to} : nodes'[n] = nodes[n]
        /\ nodes'[to].children = Append(nodes[to].children, child)
    <3> DEFINE list == Append(nodes[to].children, child)
               heap == nodes'
    <3>1. list \in Seq(Nat) /\ heap = WithChildren(to, list)
      BY <2>1, <2>9 DEF WithChildren
    <3>2. Heap' = DOMAIN heap
      BY DEF Heap
    <3> HIDE DEF list, heap
    <3>3. /\ heap \in Seq(NodeType) /\ DOMAIN heap = Heap
          /\ \A n \in Heap : /\ heap[n].kind = nodes[n].kind
                             /\ heap[n].configuration = nodes[n].configuration
          /\ \A n \in Heap \ {to} : heap[n] = nodes[n]
          /\ heap[to].children = list
      BY <3>1, ChildrenChange DEF Inv
    <3>4. QED
      BY <3>2, <3>3 DEF list, heap
  <2> HIDE DEF Inv
  <2>8. \A n \in Heap' : \A i \in DOMAIN nodes'[n].children :
          \/ i \in DOMAIN nodes[n].children /\ nodes'[n].children[i] = nodes[n].children[i]
          \/ n = to /\ nodes'[n].children[i] = child
    <3> DEFINE list == Append(nodes[to].children, child)
    <3>1. \A i \in DOMAIN list :
            (i \in DOMAIN nodes[to].children /\ list[i] = nodes[to].children[i]) \/ list[i] = child
      BY <2>2, AppendMembers
    <3> HIDE DEF list
    <3>2. nodes'[to].children = list
      BY <2>3 DEF list
    <3>3. QED
      BY <2>3, <3>1, <3>2
  <2>4. NodesOK'
    BY <2>3, <2>8 DEF Inv, NodesOK
  <2>5. IsRegistered(managers[nodes[to].configuration], nodes[child].kind)
    BY <1>2, <2>2, TakesRegistered DEF Inv
  <2>6. \A n \in Heap' : \A m \in Children(n)' : m \in Children(n) \/ (n = to /\ m = child)
    BY <2>8 DEF Children, ToSet
  <2>7. QED
    BY <2>1, <2>3, <2>4, <2>5, <2>6, NodesChange
<1>3. CASE ~Takes(nodes[to].kind, nodes[to].configuration, child)
  <2>1. UNCHANGED nodes /\ pending' \in Seq(Step)
    BY <1>1, <1>3 DEF AppendNode, Throw
  <2>2. PendingOK'
    BY <2>1, PendingStays
  <2>3. QED
    BY <2>1, <2>2 DEF Inv, ManagersOK, NodesOK, ChildrenAreRegistered, Heap, Children
<1>4. QED
  BY <1>2, <1>3

\* One node is appended, if the parent's configuration allows its kind.
LEMMA AppendNextInv ==
  ASSUME Inv, AppendNext
  PROVE  Inv'
<1>1. Head(pending) \in Step /\ Head(pending).op = "append"
  BY TailOfPending DEF AppendNext, Inv
<1>2. Head(pending).to \in Heap /\ Head(pending).node \in Heap
  BY <1>1 DEF Step
<1>3. QED
  BY <1>2, AppendNodeInv DEF AppendNext

\* The text goes to the paragraph that ends the section.
LEMMA ContinueParagraphInv ==
  ASSUME Inv, ContinueParagraph
  PROVE  Inv'
<1> DEFINE to == Head(pending).to
           node == Head(pending).node
           paragraph == LastParagraph(to)[1]
<1>1. Head(pending) \in Step /\ Head(pending).op = "inParagraph"
  BY TailOfPending DEF ContinueParagraph, Inv
<1>2. to \in Heap /\ node \in Heap
  BY <1>1 DEF Step
<1>3. LastParagraph(to) # <<>> /\ AppendNode(paragraph, node) /\ ~Idle /\ UNCHANGED managers
  BY DEF ContinueParagraph
<1>4. /\ nodes[to].children # <<>>
      /\ paragraph = Last(nodes[to].children)
  BY <1>3 DEF LastParagraph
<1>5. nodes[to].children \in Seq(Nat)
  BY <1>2, HeapFacts DEF Inv
<1>6. Len(nodes[to].children) \in DOMAIN nodes[to].children
  BY <1>4, <1>5
<1>7. paragraph \in Heap
  BY <1>2, <1>4, <1>6 DEF Last, Inv, NodesOK
<1> HIDE DEF to, node, paragraph
<1>8. QED
  BY <1>2, <1>3, <1>7, AppendNodeInv

\* A new paragraph is appended to the section, and the text to it.
LEMMA BeginParagraphInv ==
  ASSUME Inv, BeginParagraph
  PROVE  Inv'
<1> DEFINE to == Head(pending).to
           node == Head(pending).node
           c == nodes[to].configuration
           list == Append(nodes[to].children, Len(nodes) + 1)
           heap == WithChildren(to, list)
           inside == IF Takes("Paragraph", c, node) THEN <<node>> ELSE <<>>
           paragraph == Node("Paragraph", c, inside)
<1>1. Head(pending) \in Step /\ Head(pending).op = "inParagraph"
  BY TailOfPending DEF BeginParagraph, Inv
<1>2. to \in Heap /\ node \in Heap /\ node \in Nat
  BY <1>1, HeapFacts DEF Step, Inv
<1>3. /\ nodes' = Append(heap, paragraph)
      /\ UNCHANGED managers
      /\ pending' = Tail(pending) \/ pending' = <<>>
      /\ ~Idle
  BY DEF BeginParagraph, Throw, Continue, WithChildren
<1>4. pending' \in Seq(Step)
  BY <1>3, TailOfPending DEF Inv
<1>5. /\ Len(nodes) \in Nat /\ Heap = 1 .. Len(nodes)
      /\ c \in Configurations /\ nodes[to].children \in Seq(Nat)
  BY <1>2, HeapFacts DEF Inv
<1>6. /\ list \in Seq(Nat)
      /\ \A i \in DOMAIN list :
           \/ i \in DOMAIN nodes[to].children /\ list[i] = nodes[to].children[i]
           \/ list[i] = Len(nodes) + 1
  <2>1. nodes[to].children \in Seq(Nat) /\ Len(nodes) + 1 \in Nat
    BY <1>5
  <2> DEFINE old == nodes[to].children
             new == Len(nodes) + 1
  <2> HIDE DEF old, new
  <2>2. /\ Append(old, new) \in Seq(Nat)
        /\ \A i \in DOMAIN Append(old, new) :
             \/ i \in DOMAIN old /\ Append(old, new)[i] = old[i]
             \/ Append(old, new)[i] = new
    BY <2>1, AppendMembers DEF old, new
  <2>3. QED
    BY <2>2 DEF old, new
<1>7. /\ inside \in Seq(Nat)
      /\ \A i \in DOMAIN inside : inside[i] = node /\ Takes("Paragraph", c, node)
  BY <1>2
<1>8. /\ paragraph \in NodeType
      /\ paragraph.kind = "Paragraph" /\ paragraph.configuration = c
      /\ paragraph.children = inside
  BY <1>5, <1>7 DEF Node, NodeType, Kinds
<1>9. heap = WithChildren(to, list)
  OBVIOUS
<1> HIDE DEF to, node, c, list, heap, inside, paragraph
<1>10. /\ heap \in Seq(NodeType) /\ DOMAIN heap = Heap
       /\ \A n \in Heap : /\ heap[n].kind = nodes[n].kind
                          /\ heap[n].configuration = nodes[n].configuration
       /\ \A n \in Heap \ {to} : heap[n] = nodes[n]
       /\ heap[to].children = list
  BY <1>2, <1>6, <1>9, ChildrenChange DEF Inv
<1> DEFINE new == Len(nodes) + 1
<1>11. /\ nodes' \in Seq(NodeType) /\ Heap' = 1 .. new
       /\ \A n \in Heap : nodes'[n] = heap[n]
       /\ nodes'[new] = paragraph
  <2>1. Len(heap) = Len(nodes)
    BY <1>5, <1>10
  <2>2. QED
    BY <1>3, <1>5, <1>8, <1>10, <2>1 DEF Heap
<1>12. /\ Heap \subseteq Heap' /\ new \in Heap' /\ new \notin Heap
       /\ \A n \in Heap' : n \in Heap \/ n = new
  BY <1>5, <1>11
<1> HIDE DEF new
<1>13. NodesOK'
  <2>1. ASSUME NEW n \in Heap', NEW i \in DOMAIN nodes'[n].children
        PROVE  nodes'[n].children[i] \in Heap'
    <3>1. CASE n = new
      BY <1>2, <1>7, <1>8, <1>11, <1>12, <2>1, <3>1
    <3>2. CASE n = to
      BY <1>2, <1>6, <1>10, <1>11, <1>12, <2>1, <3>2 DEF Inv, NodesOK, new
    <3>3. CASE n \in Heap \ {to}
      BY <1>10, <1>11, <1>12, <2>1, <3>3 DEF Inv, NodesOK
    <3>4. QED
      BY <1>12, <2>1, <3>1, <3>2, <3>3
  <2>2. QED
    BY <1>11, <2>1 DEF NodesOK
<1>14. ASSUME NEW n \in Heap', NEW child \in Children(n)', ~(n \in Heap /\ child \in Children(n))
       PROVE  IsRegistered(managers[nodes'[n].configuration], nodes'[child].kind)
  <2>1. PICK i \in DOMAIN nodes'[n].children : child = nodes'[n].children[i]
    BY <1>14 DEF Children, ToSet
  <2>2. CASE n = new
    <3>1. child = node /\ Takes("Paragraph", c, node)
      BY <1>7, <1>8, <1>11, <2>1, <2>2
    <3>2. IsRegistered(managers[c], nodes[node].kind)
      BY <1>5, <3>1, TakesRegistered DEF Inv
    <3>3. QED
      BY <1>2, <1>8, <1>10, <1>11, <2>2, <3>1, <3>2
  <2>3. CASE n = to
    <3>1. child = new
      BY <1>2, <1>6, <1>10, <1>11, <1>14, <2>1, <2>3 DEF Children, ToSet, new
    <3>2. IsRegistered(managers[c], "Paragraph")
      BY <1>5 DEF Inv, ManagersOK, HasBuiltIns, BuiltInKinds
    <3>3. QED
      BY <1>2, <1>8, <1>10, <1>11, <2>3, <3>1, <3>2 DEF c
  <2>4. CASE n \in Heap \ {to}
    BY <1>10, <1>11, <1>14, <2>1, <2>4 DEF Children, ToSet
  <2>5. QED
    BY <1>12, <1>14, <2>2, <2>3, <2>4
<1>15. QED
  BY <1>3, <1>4, <1>10, <1>11, <1>12, <1>13, <1>14, NodesChange

\* A container without children is as good as a new one.
LEMMA ClearNodesInv ==
  ASSUME Inv, NEW n \in Heap, ClearNodes(n)
  PROVE  Inv'
<1> DEFINE heap == nodes'
           none == <<>>
<1>1. /\ heap = WithChildren(n, none)
      /\ none \in Seq(Nat) /\ DOMAIN none = {}
      /\ UNCHANGED <<managers, pending>>
      /\ Heap' = DOMAIN heap
  BY DEF ClearNodes, Heap, WithChildren
<1> HIDE DEF heap, none
<1>2. /\ heap \in Seq(NodeType) /\ DOMAIN heap = Heap
      /\ \A m \in Heap : /\ heap[m].kind = nodes[m].kind
                         /\ heap[m].configuration = nodes[m].configuration
      /\ \A m \in Heap \ {n} : heap[m] = nodes[m]
      /\ heap[n].children = none
  BY <1>1, ChildrenChange DEF Inv
<1>3. /\ nodes' \in Seq(NodeType) /\ Heap' = Heap
      /\ \A m \in Heap : /\ nodes'[m].kind = nodes[m].kind
                         /\ nodes'[m].configuration = nodes[m].configuration
      /\ \A m \in Heap : nodes'[m].children = nodes[m].children \/ nodes'[m].children = none
  BY <1>1, <1>2 DEF heap
<1>4. NodesOK'
  BY <1>1, <1>3 DEF Inv, NodesOK
<1>5. \A m \in Heap' : Children(m)' \subseteq Children(m)
  BY <1>1, <1>3 DEF Children, ToSet
<1>6. pending' \in Seq(Step)
  BY <1>1 DEF Inv, PendingOK
<1>7. QED
  BY <1>1, <1>3, <1>4, <1>5, <1>6, NodesChange

-----------------------------------------------------------------------------
\* Inv is an invariant, for any kinds and any trees.
THEOREM InvHolds == Spec => []Inv
<1>1. Init => Inv
  BY InitInv
<1>2. Inv /\ [Next]_vars => Inv'
  <2> SUFFICES ASSUME Inv, [Next]_vars PROVE Inv'
    OBVIOUS
  <2>1. CASE UNCHANGED vars
    BY <2>1, PendingStays DEF vars, Inv, ManagersOK, NodesOK, PendingOK, ChildrenAreRegistered,
                              Heap, Children
  <2>2. CASE \E c \in Extended, l \in DefinitionLists : RegisterDocNodes(c, l)
    BY <2>2, RegisterDocNodesInv
  <2>3. CASE \E c \in Extended, l \in ChildLists : RegisterAllowableChildren(c, l[1], l[2])
    BY <2>3, RegisterAllowableChildrenInv
  <2>4. CASE \E node \in Made, l \in {<<>>} \union Lists :
               NewNode(node.kind, node.configuration, l)
    BY <2>4, NewNodeInv
  <2>5. CASE \E n \in Heap, l \in Lists, op \in {"append", "inParagraph"} : AppendNodes(n, l, op)
    BY <2>5, AppendNodesInv
  <2>6. CASE \E n \in Heap : ClearNodes(n)
    BY <2>6, ClearNodesInv
  <2>7. CASE RegisterNext \/ AllowNext \/ AppendNext \/ ContinueParagraph \/ BeginParagraph
    BY <2>7, RegisterNextInv, AllowNextInv, AppendNextInv, ContinueParagraphInv, BeginParagraphInv
  <2>8. QED
    BY <2>1, <2>2, <2>3, <2>4, <2>5, <2>6, <2>7 DEF Next
<1>3. QED
  BY <1>1, <1>2, PTL DEF Spec

(***************************************************************************)
(* registerDocNodes() and registerAllowableChildren(), in any order and    *)
(* wherever they throw, leave a manager whose two maps agree, that has all *)
(* built-in kinds and allows only known kinds.                             *)
(***************************************************************************)
THEOREM RegistrationsAgreeHolds == Spec => []RegistrationsAgree
<1>1. Inv => RegistrationsAgree
  BY DEF Inv, ManagersOK, HasBuiltIns, RegistrationsAgree
<1>2. QED
  BY <1>1, InvHolds, PTL

(***************************************************************************)
(* The first half of TreesCanBeWalked: whatever is appended, made or       *)
(* cleared, getChildNodes() knows the kind of a child that has the         *)
(* configuration of its parent.                                            *)
(***************************************************************************)
THEOREM ChildrenAreRegisteredHolds == Spec => []ChildrenAreRegistered
<1>1. Inv => ChildrenAreRegistered
  BY DEF Inv
<1>2. QED
  BY <1>1, InvHolds, PTL
=============================================================================
