------------------------------ MODULE DocNodes ------------------------------
(***************************************************************************)
(* A program that registers DocNode classes of its own and builds trees of *)
(* nodes by hand, with nodes of more than one TSDocConfiguration.  "nodes" *)
(* is the heap; a node has no parent, so that one may be in many places.   *)
(* The loops of the methods that take lists run one element at a time, so  *)
(* that an exception can leave any of them half-done: "pending" is what is *)
(* left of the loop.                                                       *)
(***************************************************************************)
EXTENDS DocNodeManager, FiniteSets

CONSTANTS
  Configurations,
  Extended,           \* those that the program registers kinds with
  DefinitionLists,    \* what is passed to registerDocNodes()
  ChildLists,         \* ... and to registerAllowableChildren(): a parent and kinds
  Made,               \* the nodes that are made: kinds and configurations
  Containers,         \* the kinds whose classes are DocNodeContainers
  MaxNodes,           \* bound: nodes on the heap
  MaxChildren         \* bound: children of all nodes together

ASSUME ConfigurationsAssumption == Extended \subseteq Configurations
ASSUME ListsAssumption ==
  /\ DefinitionLists \subseteq Seq([docNodeKind : STRING, constructor : STRING])
  /\ \A l \in ChildLists : l \in STRING \X Seq(STRING)
ASSUME MadeAssumption == Made \subseteq [kind : STRING, configuration : Configurations]
ASSUME ContainersAssumption == {"Section", "Paragraph"} \subseteq Containers

VARIABLES managers, nodes, pending

vars == <<managers, nodes, pending>>

Init ==
  /\ managers = [c \in Configurations |-> BuiltInManager]
  /\ nodes = <<>>
  /\ pending = <<>>

Idle == pending = <<>>
\* The loop goes on, or an exception ends it
Continue == pending' = Tail(pending)
Throw == pending' = <<>>

-----------------------------------------------------------------------------
\* An invalid package name throws before the loop, and changes nothing
RegisterDocNodes(c, definitions) ==
  /\ Idle
  /\ pending' = [i \in DOMAIN definitions |->
                   [op |-> "register", configuration |-> c, definition |-> definitions[i]]]
  /\ UNCHANGED <<managers, nodes>>

RegisterNext ==
  /\ ~Idle /\ Head(pending).op = "register"
  /\ LET step == Head(pending)
         m == managers[step.configuration]
     IN IF CanRegister(m, step.definition)
          THEN /\ managers' = [managers EXCEPT ![step.configuration] =
                                 Register(m, "package", step.definition)]
               /\ Continue
          ELSE Throw /\ UNCHANGED managers
  /\ UNCHANGED nodes

RegisterAllowableChildren(c, parentKind, childKinds) ==
  /\ Idle
  /\ pending' = [i \in DOMAIN childKinds |->
                   [op |-> "allow", configuration |-> c, parentKind |-> parentKind,
                    childKind |-> childKinds[i]]]
  /\ UNCHANGED <<managers, nodes>>

AllowNext ==
  /\ ~Idle /\ Head(pending).op = "allow"
  /\ LET step == Head(pending)
         m == managers[step.configuration]
     IN IF CanAllow(m, step.parentKind, step.childKind)
          THEN /\ managers' = [managers EXCEPT ![step.configuration] =
                                 Allow(m, step.parentKind, step.childKind)]
               /\ Continue
          ELSE Throw /\ UNCHANGED managers
  /\ UNCHANGED nodes

-----------------------------------------------------------------------------
Node(kind, c, children) == [kind |-> kind, configuration |-> c, children |-> children]

ChildCount == SumFunction([n \in DOMAIN nodes |-> Len(nodes[n].children)])
HasRoom == ChildCount < MaxChildren

\* Whether appendNode() of a node of this kind and configuration takes that child
Takes(kind, c, child) == IsAllowedChild(managers[c], kind, nodes[child].kind)

\* A constructor that throws leaves no object
NewNode(kind, c, children) ==
  /\ Idle /\ Len(nodes) < MaxNodes /\ ChildCount + Len(children) <= MaxChildren
  /\ children # <<>> => kind \in Containers
  /\ \A i \in DOMAIN children : Takes(kind, c, children[i])
  /\ nodes' = Append(nodes, Node(kind, c, children))
  /\ UNCHANGED <<managers, pending>>

\* mutant: nothing is checked
AppendAnything(to, child) ==
  /\ nodes' = [nodes EXCEPT ![to].children = Append(@, child)]
  /\ Continue
\* appendNode()
AppendNode(to, child) ==
  IF Takes(nodes[to].kind, nodes[to].configuration, child)
    THEN nodes' = [nodes EXCEPT ![to].children = Append(@, child)] /\ Continue
    ELSE UNCHANGED nodes /\ Throw

AppendNodes(to, children, op) ==
  /\ Idle /\ nodes[to].kind \in (IF op = "append" THEN Containers ELSE {"Section"})
  /\ pending' = [i \in DOMAIN children |-> [op |-> op, to |-> to, node |-> children[i]]]
  /\ UNCHANGED <<managers, nodes>>

AppendNext ==
  /\ ~Idle /\ Head(pending).op = "append"
  /\ HasRoom
  /\ AppendNode(Head(pending).to, Head(pending).node)
  /\ UNCHANGED managers

\* The paragraph that appendNodeInParagraph() goes on with: none, if the last node is another kind
LastParagraph(section) ==
  LET children == nodes[section].children IN
  IF children # <<>> /\ nodes[Last(children)].kind = "Paragraph" THEN <<Last(children)>> ELSE <<>>

ContinueParagraph ==
  /\ ~Idle /\ Head(pending).op = "inParagraph"
  /\ LastParagraph(Head(pending).to) # <<>>
  /\ HasRoom
  /\ AppendNode(LastParagraph(Head(pending).to)[1], Head(pending).node)
  /\ UNCHANGED managers

\* mutant: a new paragraph is put in front
BeginFirstParagraph ==
  LET to == Head(pending).to IN
  /\ ~Idle /\ Head(pending).op = "inParagraph"
  /\ LastParagraph(to) = <<>> /\ Len(nodes) < MaxNodes /\ HasRoom
  /\ nodes' = Append([nodes EXCEPT ![to].children = <<Len(nodes) + 1>> \o @],
                     Node("Paragraph", nodes[to].configuration,
                          IF Takes("Paragraph", nodes[to].configuration, Head(pending).node)
                            THEN <<Head(pending).node>> ELSE <<>>))
  /\ IF nodes'[Len(nodes')].children = <<>> THEN Throw ELSE Continue
  /\ UNCHANGED managers
\* A new paragraph is in the section before it is known whether it takes the node
BeginParagraph ==
  LET to == Head(pending).to IN
  /\ ~Idle /\ Head(pending).op = "inParagraph"
  /\ LastParagraph(to) = <<>> /\ Len(nodes) < MaxNodes /\ HasRoom
  /\ nodes' = Append([nodes EXCEPT ![to].children = Append(@, Len(nodes) + 1)],
                     Node("Paragraph", nodes[to].configuration,
                          IF Takes("Paragraph", nodes[to].configuration, Head(pending).node)
                            THEN <<Head(pending).node>> ELSE <<>>))
  /\ IF nodes'[Len(nodes')].children = <<>> THEN Throw ELSE Continue
  /\ UNCHANGED managers

ClearNodes(n) ==
  /\ Idle /\ nodes[n].kind \in Containers
  /\ nodes' = [nodes EXCEPT ![n].children = <<>>]
  /\ UNCHANGED <<managers, pending>>

-----------------------------------------------------------------------------
Heap == DOMAIN nodes
Lists == {<<n>> : n \in Heap} \union {<<n, m>> : n, m \in Heap}

Next ==
  \/ \E c \in Extended, l \in DefinitionLists : RegisterDocNodes(c, l)
  \/ \E c \in Extended, l \in ChildLists : RegisterAllowableChildren(c, l[1], l[2])
  \/ RegisterNext \/ AllowNext
  \/ \E node \in Made, l \in {<<>>} \union Lists : NewNode(node.kind, node.configuration, l)
  \/ \E n \in Heap, l \in Lists, op \in {"append", "inParagraph"} : AppendNodes(n, l, op)
  \/ AppendNext \/ ContinueParagraph \/ BeginParagraph
  \/ \E n \in Heap : ClearNodes(n)

Spec == Init /\ [][Next]_vars

-----------------------------------------------------------------------------
(***************************************************************************)
(* The two maps of a manager are about the same definitions, also after a  *)
(* registration that threw half-way: a kind is found under its class and a *)
(* class under its kind, no built-in kind is lost or taken over, and only  *)
(* known kinds are allowed as children.                                    *)
(***************************************************************************)
ManagerAgrees(m) ==
  /\ \A k \in DOMAIN m.byKind :
       /\ m.byKind[k].constructor \in DOMAIN m.byConstructor
       /\ m.byConstructor[m.byKind[k].constructor] = k
       /\ m.byKind[k].allowedChildKinds \subseteq DOMAIN m.byKind
  /\ \A class \in DOMAIN m.byConstructor :
       /\ m.byConstructor[class] \in DOMAIN m.byKind
       /\ m.byKind[m.byConstructor[class]].constructor = class
RegistrationsAgree ==
  \A c \in Configurations :
    /\ ManagerAgrees(managers[c])
    /\ \A kind \in BuiltInKinds :
         /\ IsRegistered(managers[c], kind)
         /\ managers[c].byKind[kind].packageName = "@microsoft/tsdoc"

Children(n) == ToSet(nodes[n].children)
\* What is reached from "start" in one or more steps, of at most "length"
Reached(start, Step(_), length) ==
  LET reached[k \in 1 .. length] ==
        IF k = 1 THEN Step(start)
        ELSE reached[k - 1] \union UNION {Step(x) : x \in reached[k - 1]}
  IN reached[length]

Below(n) == Reached(n, Children, Len(nodes))

\* The containers that one may contain, directly or not, in any configuration
MayContain(kind) ==
  {k \in Containers : \E c \in Configurations : IsAllowedChild(managers[c], kind, k)}
MayBeBelow(kind) == Reached(kind, MayContain, Cardinality(Containers))

(***************************************************************************)
(* A tree can be walked with getChildNodes(), which throws for a kind that *)
(* is not registered: that can happen at its root, or at a node of another *)
(* configuration than its parent's, and nowhere else.  The walk ends,      *)
(* unless the program has allowed kinds to contain each other: only then   *)
(* can a node come to be below itself.                                     *)
(***************************************************************************)
ChildrenAreRegistered ==
  \A n \in Heap : \A child \in Children(n) :
    nodes[child].configuration = nodes[n].configuration
      => IsRegistered(managers[nodes[child].configuration], nodes[child].kind)
TreesCanBeWalked ==
  /\ ChildrenAreRegistered
  /\ \A n \in Heap : n \in Below(n) => nodes[n].kind \in MayBeBelow(nodes[n].kind)

\* The nodes of a section in order, those of its paragraphs in place of the paragraph
Content(heap, section) ==
  FlattenSeq([i \in DOMAIN heap[section].children |->
                LET child == heap[section].children[i] IN
                IF heap[child].kind = "Paragraph" THEN heap[child].children ELSE <<child>>])

\* The configuration that decides what appendNodeInParagraph() takes
ParagraphConfiguration(section) ==
  IF LastParagraph(section) = <<>> THEN nodes[section].configuration
  ELSE nodes[LastParagraph(section)[1]].configuration

(***************************************************************************)
(* appendNodeInParagraph() adds the node to the section's text, after all  *)
(* that was there and in its last paragraph, or throws and adds none: also *)
(* if the last paragraph was made for another section or configuration,    *)
(* unless the same paragraph is in the section in two places.              *)
(***************************************************************************)
AppendedTextComesLast ==
  [][\A n \in Heap, child \in Heap :
       (/\ ~Idle /\ Head(pending) = [op |-> "inParagraph", to |-> n, node |-> child]
        /\ \A i \in 1 .. Len(nodes[n].children) - 1 : nodes[n].children[i] # Last(nodes[n].children))
         => IF Takes("Paragraph", ParagraphConfiguration(n), child)
              THEN /\ nodes'[Last(nodes'[n].children)].kind = "Paragraph"
                   /\ Content(nodes', n) = Append(Content(nodes, n), child)
              ELSE Content(nodes', n) = Content(nodes, n)]_vars
=============================================================================
