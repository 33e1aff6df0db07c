------------------------------- MODULE Ontology -------------------------------
(***************************************************************************)
(* ConceptOntology.validate: the trust boundary every curriculum passes    *)
(* before anything is embedded or written.  Concepts and edges are checked *)
(* one by one, then each edge type is searched for a cycle by an iterative *)
(* depth-first walk with three colours.  The walk may look at roots and    *)
(* successors in any order: the code's is the order of the host's list.    *)
(***************************************************************************)
EXTENDS Naturals, Sequences

CONSTANTS ConceptId,    \* the host's keys
          EdgeKind,     \* EdgeType
          Ontologies,   \* the curricula hosts submit
          Blank         \* an empty or all-blank id or label

ASSUME BlankIsNoId == Blank \notin ConceptId \cup EdgeKind

Ids == ConceptId \cup {Blank}

(* A concept is [id, text], an edge [source, target, type]; __post_init__   *)
(* has already refused an edge type that is none.                           *)
ASSUME OntologiesTyped ==
    \A o \in Ontologies :
        /\ o.concepts \in Seq([id: Ids, text: {"text", Blank}])
        /\ o.edges \in Seq([source: Ids, target: Ids, type: EdgeKind])

VARIABLES onto,      \* the curriculum under validation
          stage,     \* idle, types, roots, walk, accepted, rejected
          todo,      \* edge types still to be searched
          kind,      \* the type whose edges are searched now
          colour,
          stack      \* frames [node, left]: left are the successors not looked at

ovars == <<onto, stage, todo, kind, colour, stack>>

Nothing == [concepts |-> <<>>, edges |-> <<>>]

Frame == [node: Ids, left: SUBSET Ids]

White == [c \in Ids |-> "white"]

Unwalked == todo = {} /\ kind = Blank /\ colour = White /\ stack = <<>>

At(s) == {s[i] : i \in DOMAIN s}

Successors(o, t, n) == {e.target : e \in {f \in At(o.edges) : f.type = t /\ f.source = n}}

Sources(o, t) == {e.source : e \in {f \in At(o.edges) : f.type = t}}

Listed(o) == {c.id : c \in At(o.concepts)}

(* What the two loops of validate refuse before any walk.                   *)
BadConcepts(o) ==
    \/ o.concepts = <<>>
    \/ \E c \in At(o.concepts) : c.id = Blank \/ c.text = Blank
    \/ \E i, j \in DOMAIN o.concepts : i < j /\ o.concepts[i].id = o.concepts[j].id

BadEdges(o) ==
    \/ \E e \in At(o.edges) : \/ {e.source, e.target} \ Listed(o) # {}
                              \/ e.source = e.target
    \/ \E i, j \in DOMAIN o.edges :
          /\ i < j
          /\ {o.edges[i].source, o.edges[i].target} = {o.edges[j].source, o.edges[j].target}

Malformed(o) == BadConcepts(o) \/ BadEdges(o)

OInit == onto = Nothing /\ stage = "idle" /\ Unwalked

(* seed_ontology hands a curriculum to validate.                            *)
Submit ==
    /\ stage = "idle"
    /\ \E o \in Ontologies :
        /\ onto' = o
        /\ IF Malformed(o)
           THEN stage' = "rejected" /\ todo' = {}
           ELSE stage' = "types" /\ todo' = {e.type : e \in At(o.edges)}
    /\ UNCHANGED <<kind, colour, stack>>

NextType ==
    /\ stage = "types"
    /\ \/ \E t \in todo : /\ stage' = "roots" /\ kind' = t
                         /\ todo' = todo \ {t} /\ colour' = White
       \/ /\ todo = {}
          /\ stage' = "accepted" /\ kind' = Blank /\ colour' = White
          /\ UNCHANGED todo
    /\ UNCHANGED <<onto, stack>>

Open(n) == [node |-> n, left |-> Successors(onto, kind, n)]

Root ==
    /\ stage = "roots"
    /\ \/ \E r \in Sources(onto, kind) :
            /\ colour[r] = "white"
            /\ stage' = "walk" /\ stack' = <<Open(r)>>
            /\ colour' = [colour EXCEPT ![r] = "grey"]
       \/ /\ \A r \in Sources(onto, kind) : colour[r] # "white"
          /\ stage' = "types" /\ UNCHANGED <<colour, stack>>
    /\ UNCHANGED <<onto, todo, kind>>

(* The walk raises.                                                         *)
Refuse == /\ stage' = "rejected" /\ todo' = {} /\ kind' = Blank
          /\ colour' = White /\ stack' = <<>>

Top == stack[Len(stack)]

\* Slip: only the node the walk began at counts as on the path.
Look_Root ==
    /\ stage = "walk"
    /\ \E n \in Top.left :
        LET rest == [stack EXCEPT ![Len(stack)].left = @ \ {n}]
        IN  \/ /\ n = stack[1].node
               /\ Refuse
            \/ /\ n # stack[1].node /\ colour[n] # "white"
               /\ stack' = rest /\ UNCHANGED <<stage, todo, kind, colour>>
            \/ /\ n # stack[1].node /\ colour[n] = "white"
               /\ stack' = Append(rest, Open(n))
               /\ colour' = [colour EXCEPT ![n] = "grey"]
               /\ UNCHANGED <<stage, todo, kind>>
    /\ UNCHANGED onto

(* One turn of the while loop that takes the next successor.                *)
Look ==
    /\ stage = "walk"
    /\ \E n \in Top.left :
        LET rest == [stack EXCEPT ![Len(stack)].left = @ \ {n}]
        IN  \/ /\ colour[n] = "grey"
               /\ Refuse
            \/ /\ colour[n] = "black"
               /\ stack' = rest /\ UNCHANGED <<stage, todo, kind, colour>>
            \/ /\ colour[n] = "white"
               /\ stack' = Append(rest, Open(n))
               /\ colour' = [colour EXCEPT ![n] = "grey"]
               /\ UNCHANGED <<stage, todo, kind>>
    /\ UNCHANGED onto

\* Slip: a finished node stays grey.
Finish_Grey ==
    /\ stage = "walk" /\ Top.left = {}
    /\ stack' = SubSeq(stack, 1, Len(stack) - 1)
    /\ stage' = IF Len(stack) = 1 THEN "roots" ELSE "walk"
    /\ UNCHANGED <<onto, todo, kind, colour>>

(* ... and one that has none left.                                          *)
Finish ==
    /\ stage = "walk" /\ Top.left = {}
    /\ colour' = [colour EXCEPT ![Top.node] = "black"]
    /\ stack' = SubSeq(stack, 1, Len(stack) - 1)
    /\ stage' = IF Len(stack) = 1 THEN "roots" ELSE "walk"
    /\ UNCHANGED <<onto, todo, kind>>

(* validate returns or raises; its locals are gone.                         *)
Return ==
    /\ stage \in {"accepted", "rejected"} /\ stage' = "idle" /\ onto' = Nothing
    /\ UNCHANGED <<todo, kind, colour, stack>>

Validating == Submit \/ NextType \/ Root \/ Look \/ Finish

ONext == Validating \/ Return

OSpec == OInit /\ [][ONext]_ovars

------------------------------------------------------------------------------
(* A set of concepts each of which leads to another of the set.             *)
Cyclic(o, t) ==
    \E S \in SUBSET Ids : S # {} /\ \A n \in S : Successors(o, t, n) \cap S # {}

(* A curriculum that passes is well formed and has no cycle of any one edge *)
(* type, so that "what must I learn first" has an answer (validate); a      *)
(* cycle of mixed types is let through on purpose.                          *)
AcceptedIsAcyclic ==
    stage = "accepted" => ~ Malformed(onto) /\ \A t \in EdgeKind : ~ Cyclic(onto, t)

(* Only a malformed or cyclic curriculum is refused: a diamond, where two   *)
(* paths meet at a node that is already finished, is none.                  *)
RejectedHasCause ==
    stage = "rejected" => Malformed(onto) \/ \E t \in EdgeKind : Cyclic(onto, t)

OntologyTypeOK ==
    /\ onto \in Ontologies \cup {Nothing}
    /\ stage \in {"idle", "types", "roots", "walk", "accepted", "rejected"}
    /\ todo \subseteq EdgeKind /\ kind \in EdgeKind \cup {Blank}
    /\ colour \in [Ids -> {"white", "grey", "black"}]
    /\ stack \in Seq(Frame)
===============================================================================
