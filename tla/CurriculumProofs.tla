--------------------------- MODULE CurriculumProofs ---------------------------
(***************************************************************************)
(* The depth-first search of ConceptOntology.validate is right for every   *)
(* curriculum of any size: what it accepts has no cycle of one edge type,  *)
(* and what it refuses is malformed or has one.  Seeding a graph,          *)
(* consolidating into it and walking it leave that search as it is, so its *)
(* theorems hold of the whole.  The walk finds exactly what is behind the  *)
(* goals, in any finite graph.                                             *)
(***************************************************************************)
EXTENDS Curriculum, SequenceTheorems, FiniteSetTheorems, TLAPS

Succ(n) == Successors(onto, kind, n)

Searching == stage \in {"roots", "walk"}

(* Between Submit and the verdict the curriculum is one that passed the     *)
(* loops, and the stack is in use exactly while a walk is under way.        *)
Shape ==
    /\ Searching \/ stage = "types" => onto \in Ontologies /\ ~ Malformed(onto)
    /\ Searching => kind \in EdgeKind
    /\ stage = "walk" <=> stack # <<>>

(* Types already searched have no cycle.                                    *)
SearchedIsClean ==
    /\ stage = "types" => \A t \in EdgeKind : t \in todo \/ ~ Cyclic(onto, t)
    /\ Searching => \A t \in EdgeKind \ {kind} : t \in todo \/ ~ Cyclic(onto, t)

(* Black nodes lead to black nodes only, and none of them is on a cycle.    *)
BlackIsClean ==
    Searching =>
        /\ \A n \in Ids : colour[n] = "black" => \A m \in Succ(n) : colour[m] = "black"
        /\ \A S \in SUBSET Ids :
              S # {} /\ (\A n \in S : colour[n] = "black") => \E n \in S : Succ(n) \cap S = {}

(* The grey nodes are those of the stack, which is a path of the graph; all *)
(* a frame has looked at is black, but for the next node of the path.       *)
GreyIsPath ==
    Searching =>
        /\ \A n \in Ids : colour[n] = "grey" <=> \E i \in 1..Len(stack) : stack[i].node = n
        /\ \A i, j \in 1..Len(stack) : stack[i].node = stack[j].node => i = j
        /\ \A i \in 1..Len(stack) :
              /\ stack[i].left \subseteq Succ(stack[i].node)
              /\ i < Len(stack) => stack[i+1].node \in Succ(stack[i].node)
              /\ \A m \in Succ(stack[i].node) \ stack[i].left :
                    colour[m] = "black" \/ (i < Len(stack) /\ m = stack[i+1].node)

IInv ==
    /\ OntologyTypeOK
    /\ Shape
    /\ SearchedIsClean
    /\ BlackIsClean
    /\ GreyIsPath
    /\ AcceptedIsAcyclic
    /\ RejectedHasCause

------------------------------------------------------------------------------
(* What pushing a frame makes of the stack.                                 *)
LEMMA PushFacts ==
    ASSUME NEW F, NEW s \in Seq(F), NEW e \in F
    PROVE  /\ Append(s, e) \in Seq(F) /\ Len(Append(s, e)) = Len(s) + 1
           /\ Append(s, e)[Len(s) + 1] = e
           /\ \A i \in 1..Len(s) : Append(s, e)[i] = s[i]
  OBVIOUS

(* What popping one makes of it.                                            *)
LEMMA PopFacts ==
    ASSUME NEW F, NEW s \in Seq(F), Len(s) \in Nat \ {0}
    PROVE  /\ SubSeq(s, 1, Len(s) - 1) \in Seq(F)
           /\ Len(SubSeq(s, 1, Len(s) - 1)) = Len(s) - 1
           /\ \A i \in 1..Len(s)-1 : SubSeq(s, 1, Len(s) - 1)[i] = s[i]
<1> DEFINE n == Len(s) - 1
<1>1. n \in Nat /\ n \in Int /\ 1 \in Int
  OBVIOUS
<1>2. \A i \in 1..n : s[i] \in F
  BY ElementOfSeq
<1> HIDE DEF n
<1>3. /\ SubSeq(s, 1, n) \in Seq(F)
      /\ Len(SubSeq(s, 1, n)) = IF 1 <= n THEN n - 1 + 1 ELSE 0
      /\ \A i \in 1..n-1+1 : SubSeq(s, 1, n)[i] = s[1+i-1]
  BY <1>1, <1>2, SubSeqProperties
<1>4. Len(SubSeq(s, 1, n)) = n /\ \A i \in 1..n : SubSeq(s, 1, n)[i] = s[i]
  BY <1>1, <1>3
<1> QED
  BY <1>3, <1>4 DEF n

(* Edges of a curriculum join ids and have one of the edge types.           *)
LEMMA EdgesTyped ==
    ASSUME NEW o \in Ontologies, NEW e \in At(o.edges)
    PROVE  e.source \in Ids /\ e.target \in Ids /\ e.type \in EdgeKind
<1> DEFINE E == [source: Ids, target: Ids, type: EdgeKind]
<1>1. o.edges \in Seq(E)
  BY OntologiesTyped
<1>2. PICK i \in DOMAIN o.edges : e = o.edges[i]
  BY DEF At
<1>3. e \in E
  BY <1>1, <1>2, ElementOfSeq, LenProperties
<1> QED
  BY <1>3

(* The search visits concepts only.                                         *)
LEMMA SuccessorsAreIds ==
    ASSUME NEW o \in Ontologies, NEW t, NEW n
    PROVE  Successors(o, t, n) \subseteq Ids
  BY EdgesTyped DEF Successors

(* The types to search are edge types.                                      *)
LEMMA TypesAreKinds ==
    ASSUME NEW o \in Ontologies
    PROVE  {e.type : e \in At(o.edges)} \subseteq EdgeKind
  BY EdgesTyped

(* A type no edge of the curriculum has is without a cycle.                 *)
LEMMA AbsentTypeIsClean ==
    ASSUME NEW o, NEW t, t \notin {e.type : e \in At(o.edges)}
    PROVE  ~ Cyclic(o, t)
<1>1. \A n : Successors(o, t, n) = {}
  BY DEF Successors
<1> QED
  BY <1>1 DEF Cyclic

(* A concept that no edge leaves leads nowhere.                             *)
LEMMA OnlySourcesLead ==
    ASSUME NEW o, NEW t, NEW n, n \notin Sources(o, t)
    PROVE  Successors(o, t, n) = {}
  BY DEF Sources, Successors

(* Nothing is being validated yet.                                          *)
LEMMA InitIInv == OInit => IInv
  BY EmptySeq, BlankIsNoId
  DEF OInit, Unwalked, White, Nothing, IInv, OntologyTypeOK, Shape, Searching, SearchedIsClean,
      BlackIsClean, GreyIsPath, AcceptedIsAcyclic, RejectedHasCause

(* validate refuses what is malformed before it searches.                   *)
LEMMA SubmitStep ==
    ASSUME IInv, Submit
    PROVE  IInv'
<1>1. PICK o \in Ontologies :
        /\ onto' = o
        /\ IF Malformed(o)
           THEN stage' = "rejected" /\ todo' = {}
           ELSE stage' = "types" /\ todo' = {e.type : e \in At(o.edges)}
  BY DEF Submit
<1>2. stack = <<>> /\ stack' = <<>>
  BY DEF IInv, Shape, Submit
<1>3. todo' \subseteq EdgeKind
  BY <1>1, TypesAreKinds
<1>4. OntologyTypeOK'
  BY <1>1, <1>3 DEF IInv, OntologyTypeOK, Submit
<1>5. SearchedIsClean'
  BY <1>1, AbsentTypeIsClean DEF SearchedIsClean, Searching
<1> QED
  BY <1>1, <1>2, <1>4, <1>5
  DEF IInv, Shape, Searching, BlackIsClean, GreyIsPath, AcceptedIsAcyclic, RejectedHasCause

(* A new type is searched on a clean graph, or all are done.                *)
LEMMA NextTypeStep ==
    ASSUME IInv, NextType
    PROVE  IInv'
<1>1. stage = "types" /\ stack = <<>> /\ stack' = <<>> /\ onto' = onto
  BY DEF NextType, IInv, Shape
<1>2. onto \in Ontologies /\ ~ Malformed(onto)
  BY <1>1 DEF IInv, Shape
<1>3. \A t \in EdgeKind : t \in todo \/ ~ Cyclic(onto, t)
  BY <1>1 DEF IInv, SearchedIsClean
<1>4. CASE stage' = "accepted" /\ kind' = Blank /\ colour' = White /\ todo = {} /\ todo' = todo
  <2>1. OntologyTypeOK'
    BY <1>1, <1>4 DEF IInv, OntologyTypeOK, White
  <2>2. AcceptedIsAcyclic'
    BY <1>1, <1>2, <1>3, <1>4 DEF AcceptedIsAcyclic
  <2> QED
    BY <1>1, <1>4, <2>1, <2>2
    DEF IInv, Shape, Searching, SearchedIsClean, BlackIsClean, GreyIsPath, RejectedHasCause
<1>5. ASSUME NEW t \in todo, stage' = "roots", kind' = t, todo' = todo \ {t}, colour' = White
      PROVE  IInv'
  <2>1. t \in EdgeKind
    BY <1>5 DEF IInv, OntologyTypeOK
  <2>2. OntologyTypeOK'
    BY <1>1, <1>5, <2>1 DEF IInv, OntologyTypeOK, White
  <2>3. Shape' /\ SearchedIsClean'
    BY <1>1, <1>2, <1>3, <1>5, <2>1 DEF Shape, Searching, SearchedIsClean
  <2>4. \A n \in Ids : colour'[n] = "white"
    BY <1>5 DEF White
  <2>5. BlackIsClean'
    BY <2>4 DEF BlackIsClean
  <2>6. GreyIsPath'
    BY <1>1, <2>4, EmptySeq DEF GreyIsPath
  <2> QED
    BY <1>5, <2>2, <2>3, <2>5, <2>6 DEF IInv, AcceptedIsAcyclic, RejectedHasCause
<1> QED
  BY <1>1, <1>4, <1>5 DEF NextType

(* The verdict is taken, and the host may submit again.                     *)
LEMMA ReturnStep ==
    ASSUME IInv, Return
    PROVE  IInv'
  BY DEF Return, Nothing, IInv, OntologyTypeOK, Shape, Searching, SearchedIsClean,
         BlackIsClean, GreyIsPath, AcceptedIsAcyclic, RejectedHasCause

------------------------------------------------------------------------------
(* No root is left: the type just searched is without a cycle.              *)
LEMMA RootsDone ==
    ASSUME IInv, stage = "roots", \A r \in Sources(onto, kind) : colour[r] # "white"
    PROVE  ~ Cyclic(onto, kind)
<1>1. stack = <<>> /\ Searching /\ onto \in Ontologies
  BY DEF IInv, Shape, Searching
<1>2. \A n \in Ids : colour[n] # "grey"
  BY <1>1, EmptySeq DEF IInv, GreyIsPath
<1>3. \A n \in Ids : colour[n] = "black" \/ n \notin Sources(onto, kind)
  BY <1>2 DEF IInv, OntologyTypeOK
<1> SUFFICES ASSUME NEW S \in SUBSET Ids, S # {}
             PROVE  \E n \in S : Successors(onto, kind, n) \cap S = {}
  BY DEF Cyclic
<1>4. CASE \A n \in S : colour[n] = "black"
  BY <1>1, <1>4 DEF IInv, BlackIsClean, Succ
<1>5. CASE \E n \in S : colour[n] # "black"
  <2>1. PICK n \in S : n \notin Sources(onto, kind)
    BY <1>3, <1>5
  <2> QED
    BY <2>1, OnlySourcesLead
<1> QED
  BY <1>4, <1>5

(* A search begins at a white concept.                                      *)
LEMMA RootStep ==
    ASSUME IInv, Root
    PROVE  IInv'
<1>1. /\ stage = "roots" /\ stack = <<>> /\ Searching
      /\ onto \in Ontologies /\ ~ Malformed(onto) /\ kind \in EdgeKind
      /\ onto' = onto /\ todo' = todo /\ kind' = kind
  BY DEF Root, IInv, Shape, Searching
<1>2. \A n \in Ids : colour[n] # "grey"
  BY <1>1, EmptySeq DEF IInv, GreyIsPath
<1>3. \A n : Succ(n)' = Succ(n)
  BY <1>1 DEF Succ
<1>4. ASSUME NEW r \in Sources(onto, kind), colour[r] = "white", stage' = "walk",
             stack' = <<Open(r)>>, colour' = [colour EXCEPT ![r] = "grey"]
      PROVE  IInv'
  <2>1. r \in Ids /\ Open(r) \in Frame /\ Open(r).node = r /\ Open(r).left = Succ(r)
    <3>1. r \in Ids
      BY <1>1, EdgesTyped DEF Sources
    <3>2. Succ(r) \subseteq Ids
      BY <1>1, SuccessorsAreIds DEF Succ
    <3> QED
      BY <3>1, <3>2 DEF Open, Frame, Succ
  <2>2. Len(stack') = 1 /\ stack'[1] = Open(r) /\ stack' \in Seq(Frame) /\ stack' # <<>>
    BY <1>4, <2>1
  <2>3. OntologyTypeOK'
    BY <1>1, <1>4, <2>2 DEF IInv, OntologyTypeOK
  <2>4. \A n \in Ids : colour'[n] = IF n = r THEN "grey" ELSE colour[n]
    BY <1>4 DEF IInv, OntologyTypeOK
  <2>5. Shape' /\ SearchedIsClean'
    BY <1>1, <1>4, <2>2 DEF IInv, Shape, Searching, SearchedIsClean
  <2>6. BlackIsClean'
    <3>1. \A n \in Ids : colour'[n] = "black" <=> colour[n] = "black"
      BY <1>4, <2>4
    <3>2. \A n \in Ids : \A m \in Succ(n) : m \in Ids
      BY <1>1, SuccessorsAreIds DEF Succ
    <3> QED
      BY <1>1, <1>3, <3>1, <3>2 DEF IInv, BlackIsClean
  <2>7. GreyIsPath'
    BY <1>2, <1>3, <2>1, <2>2, <2>4 DEF GreyIsPath
  <2> QED
    BY <1>4, <2>3, <2>5, <2>6, <2>7 DEF IInv, AcceptedIsAcyclic, RejectedHasCause
<1>5. CASE /\ \A r \in Sources(onto, kind) : colour[r] # "white"
           /\ stage' = "types" /\ colour' = colour /\ stack' = stack
  <2>1. ~ Cyclic(onto, kind)
    BY <1>1, <1>5, RootsDone
  <2>2. SearchedIsClean'
    BY <1>1, <1>5, <2>1 DEF IInv, SearchedIsClean, Searching
  <2>3. OntologyTypeOK' /\ Shape'
    BY <1>1, <1>5 DEF IInv, OntologyTypeOK, Shape, Searching
  <2> QED
    BY <1>5, <2>2, <2>3
    DEF IInv, Searching, BlackIsClean, GreyIsPath, AcceptedIsAcyclic, RejectedHasCause
<1> QED
  BY <1>1, <1>4, <1>5 DEF Root

(* The walk's facts at a step: its top frame and what is below it.          *)
LEMMA TopOfStack ==
    ASSUME IInv, stage = "walk"
    PROVE  /\ stack \in Seq(Frame) /\ Len(stack) \in Nat \ {0}
           /\ Top = stack[Len(stack)] /\ Top \in Frame
           /\ onto \in Ontologies /\ ~ Malformed(onto) /\ kind \in EdgeKind
           /\ Top.left \subseteq Succ(Top.node) /\ Succ(Top.node) \subseteq Ids
           /\ colour[Top.node] = "grey"
<1>1. stack \in Seq(Frame) /\ stack # <<>> /\ onto \in Ontologies /\ Searching
  BY DEF IInv, OntologyTypeOK, Shape, Searching
<1>2. Len(stack) \in Nat \ {0}
  BY <1>1, EmptySeq
<1>3. Top = stack[Len(stack)] /\ Top \in Frame /\ Top.node \in Ids
  <2>1. Top = stack[Len(stack)]
    BY DEF Top
  <2>2. Top \in Frame
    BY <1>1, <1>2, <2>1, ElementOfSeq
  <2> QED
    BY <2>1, <2>2 DEF Frame
<1>4. Top.left \subseteq Succ(Top.node) /\ colour[Top.node] = "grey"
  BY <1>1, <1>2, <1>3 DEF IInv, GreyIsPath
<1>5. Succ(Top.node) \subseteq Ids
  BY <1>1, SuccessorsAreIds DEF Succ
<1> QED
  BY <1>1, <1>2, <1>3, <1>4, <1>5 DEF IInv, Shape

(* A successor that is grey closes a cycle: the stack from it to the top.   *)
LEMMA GreyIsCycle ==
    ASSUME IInv, stage = "walk", NEW n \in Top.left, colour[n] = "grey"
    PROVE  Cyclic(onto, kind)
<1> DEFINE L == Len(stack)
<1>1. L \in Nat \ {0} /\ n \in Ids /\ n \in Succ(stack[L].node) /\ stack \in Seq(Frame)
  BY TopOfStack
<1>2. Searching
  BY DEF Searching
<1>3. PICK p \in 1..L : stack[p].node = n
  BY <1>1, <1>2 DEF IInv, GreyIsPath
<1> DEFINE S == {stack[q].node : q \in p..L}
<1>4. S \in SUBSET Ids /\ S # {}
  <2>1. \A q \in p..L : stack[q] \in Frame
    BY <1>1, <1>3, ElementOfSeq
  <2> QED
    BY <1>1, <1>3, <2>1 DEF Frame
<1>5. ASSUME NEW q \in p..L
      PROVE  Succ(stack[q].node) \cap S # {}
  <2>1. CASE q = L
    BY <1>1, <1>3, <2>1
  <2>2. CASE q # L
    <3>1. q \in 1..L /\ q < L /\ q + 1 \in p..L
      BY <1>1, <1>3, <2>2
    <3>2. stack[q+1].node \in Succ(stack[q].node)
      BY <1>2, <3>1 DEF IInv, GreyIsPath
    <3> QED
      BY <3>1, <3>2
  <2> QED
    BY <2>1, <2>2
<1>6. \A m \in S : Succ(m) \cap S # {}
  BY <1>5
<1> QED
  BY <1>4, <1>6 DEF Cyclic, Succ

(* An edge is looked at: a white end is entered, a grey one is a cycle.     *)
LEMMA LookStep ==
    ASSUME IInv, Look
    PROVE  IInv'
<1> DEFINE L == Len(stack)
<1>1. stage = "walk" /\ Searching /\ onto' = onto
  BY DEF Look, Searching
<1>2. /\ stack \in Seq(Frame) /\ L \in Nat \ {0}
      /\ Top = stack[L] /\ Top \in Frame
      /\ onto \in Ontologies /\ ~ Malformed(onto) /\ kind \in EdgeKind
      /\ Top.left \subseteq Succ(Top.node) /\ Succ(Top.node) \subseteq Ids
  BY <1>1, TopOfStack
<1>3. PICK n \in Top.left :
        LET rest == [stack EXCEPT ![L].left = @ \ {n}]
        IN  \/ colour[n] = "grey" /\ Refuse
            \/ /\ colour[n] = "black"
               /\ stack' = rest /\ UNCHANGED <<stage, todo, kind, colour>>
            \/ /\ colour[n] = "white"
               /\ stack' = Append(rest, Open(n))
               /\ colour' = [colour EXCEPT ![n] = "grey"]
               /\ UNCHANGED <<stage, todo, kind>>
  BY DEF Look
<1> DEFINE top == [Top EXCEPT !.left = @ \ {n}]
           rest == [stack EXCEPT ![L] = top]
<1>4. n \in Ids /\ n \in Succ(Top.node)
  BY <1>2
<1>5. /\ rest = [stack EXCEPT ![L].left = @ \ {n}]
      /\ top \in Frame /\ top.node = Top.node /\ top.left = Top.left \ {n}
  BY <1>2 DEF Frame
<1>6. /\ rest \in Seq(Frame) /\ Len(rest) = L
      /\ \A i \in 1..L : rest[i] = IF i = L THEN top ELSE stack[i]
  BY <1>2, <1>5, ExceptSeq
<1>7. \A i \in 1..L : rest[i].node = stack[i].node /\ rest[i].left \subseteq stack[i].left
  BY <1>2, <1>5, <1>6
<1>8. CASE colour[n] = "grey" /\ Refuse
  <2>1. Cyclic(onto, kind)
    BY <1>1, <1>8, GreyIsCycle
  <2>2. OntologyTypeOK'
    BY <1>1, <1>2, <1>8, EmptySeq DEF Refuse, IInv, OntologyTypeOK, White
  <2>3. stage' = "rejected" /\ stack' = <<>>
    BY <1>8 DEF Refuse
  <2>4. RejectedHasCause'
    BY <1>1, <1>2, <2>1 DEF RejectedHasCause
  <2> QED
    BY <2>2, <2>3, <2>4
    DEF IInv, Shape, Searching, SearchedIsClean, BlackIsClean, GreyIsPath, AcceptedIsAcyclic
<1>9. CASE /\ colour[n] = "black" /\ stack' = rest
           /\ UNCHANGED <<stage, todo, kind, colour>>
  <2>1. \A m : Succ(m)' = Succ(m)
    BY <1>1, <1>9 DEF Succ
  <2>2. OntologyTypeOK' /\ Shape' /\ SearchedIsClean' /\ stack' # <<>>
    BY <1>1, <1>2, <1>6, <1>9, EmptySeq
    DEF IInv, OntologyTypeOK, Shape, Searching, SearchedIsClean
  <2>3. BlackIsClean'
    BY <1>1, <1>9, <2>1 DEF IInv, BlackIsClean, Searching
  <2>4. GreyIsPath'
    <3>1. \A m \in Ids : colour[m] = "grey" <=> \E i \in 1..L : rest[i].node = m
      BY <1>1, <1>7 DEF IInv, GreyIsPath
    <3>2. \A i, j \in 1..L : rest[i].node = rest[j].node => i = j
      BY <1>1, <1>7 DEF IInv, GreyIsPath
    <3>3. ASSUME NEW i \in 1..L
          PROVE  /\ rest[i].left \subseteq Succ(rest[i].node)
                 /\ i < L => rest[i+1].node \in Succ(rest[i].node)
                 /\ \A m \in Succ(rest[i].node) \ rest[i].left :
                       colour[m] = "black" \/ (i < L /\ m = rest[i+1].node)
      <4>1. /\ stack[i].left \subseteq Succ(stack[i].node)
            /\ i < L => stack[i+1].node \in Succ(stack[i].node)
            /\ \A m \in Succ(stack[i].node) \ stack[i].left :
                  colour[m] = "black" \/ (i < L /\ m = stack[i+1].node)
        BY <1>1 DEF IInv, GreyIsPath
      <4>2. i < L => rest[i+1].node = stack[i+1].node /\ rest[i] = stack[i]
        BY <1>2, <1>6, <1>7
      <4>3. i = L => rest[i].left = stack[i].left \ {n}
        BY <1>2, <1>5, <1>6
      <4> QED
        BY <1>2, <1>7, <1>9, <4>1, <4>2, <4>3
    <3> QED
      BY <1>6, <1>9, <2>1, <3>1, <3>2, <3>3 DEF GreyIsPath
  <2> QED
    BY <1>1, <1>9, <2>2, <2>3, <2>4 DEF IInv, AcceptedIsAcyclic, RejectedHasCause
<1>10. CASE /\ colour[n] = "white" /\ stack' = Append(rest, Open(n))
            /\ colour' = [colour EXCEPT ![n] = "grey"]
            /\ UNCHANGED <<stage, todo, kind>>
  <2> DEFINE push == Append(rest, Open(n))
  <2>1. \A m : Succ(m)' = Succ(m)
    BY <1>1, <1>10 DEF Succ
  <2>2. Succ(n) \subseteq Ids /\ Open(n) = [node |-> n, left |-> Succ(n)] /\ Open(n) \in Frame
    BY <1>2, <1>4, SuccessorsAreIds DEF Open, Frame, Succ
  <2>3. /\ push \in Seq(Frame) /\ Len(push) = L + 1 /\ push[L+1] = Open(n)
        /\ \A i \in 1..L : push[i] = rest[i]
    <3> HIDE DEF rest
    <3> QED
      BY <1>6, <2>2, PushFacts
  <2>4. \A m \in Ids : colour'[m] = IF m = n THEN "grey" ELSE colour[m]
    BY <1>10 DEF IInv, OntologyTypeOK
  <2>5. OntologyTypeOK' /\ Shape' /\ SearchedIsClean'
    <3>1. push # <<>>
      BY <1>2, <2>3, EmptySeq
    <3> QED
      BY <1>1, <1>10, <2>3, <3>1
      DEF IInv, OntologyTypeOK, Shape, Searching, SearchedIsClean
  <2>6. BlackIsClean'
    <3>1. \A m \in Ids : colour'[m] = "black" <=> colour[m] = "black"
      BY <1>10, <2>4
    <3>2. \A k \in Ids : \A m \in Succ(k) : m \in Ids
      BY <1>2, SuccessorsAreIds DEF Succ
    <3> QED
      BY <1>1, <2>1, <3>1, <3>2 DEF IInv, BlackIsClean
  <2>7. GreyIsPath'
    <3>1. \A i \in 1..L : stack[i].node # n
      BY <1>1, <1>4, <1>10 DEF IInv, GreyIsPath
    <3>2. \A i \in 1..L : push[i].node = stack[i].node /\ push[i].node # n
      BY <1>7, <2>3, <3>1
    <3>3. push[L+1].node = n /\ push[L+1].left = Succ(n)
      BY <2>2, <2>3
    <3>4. \A m \in Ids : colour'[m] = "grey" <=> \E i \in 1..L+1 : push[i].node = m
      <4>1. \A m \in Ids : colour[m] = "grey" <=> \E i \in 1..L : stack[i].node = m
        BY <1>1 DEF IInv, GreyIsPath
      <4>2. \A i : i \in 1..L+1 <=> i \in 1..L \/ i = L+1
        BY <1>2
      <4> QED
        BY <2>4, <3>2, <3>3, <4>1, <4>2
    <3>5. \A i, j \in 1..L+1 : push[i].node = push[j].node => i = j
      <4>1. \A i, j \in 1..L : stack[i].node = stack[j].node => i = j
        BY <1>1 DEF IInv, GreyIsPath
      <4>2. \A i \in 1..L+1 : i \in 1..L \/ i = L+1
        BY <1>2
      <4> QED
        BY <3>2, <3>3, <4>1, <4>2
    <3>6. ASSUME NEW i \in 1..L+1
          PROVE  /\ push[i].left \subseteq Succ(push[i].node)
                 /\ i < L+1 => push[i+1].node \in Succ(push[i].node)
                 /\ \A m \in Succ(push[i].node) \ push[i].left :
                       colour'[m] = "black" \/ (i < L+1 /\ m = push[i+1].node)
      <4>1. CASE i = L + 1
        BY <1>2, <3>3, <4>1
      <4>2. CASE i = L
        <5>1. push[i].left = Top.left \ {n} /\ push[i].node = Top.node /\ push[i+1].node = n
          <6>1. L \in 1..L
            BY <1>2
          <6>2. push[L] = top
            <7> HIDE DEF push, rest, top
            <7> QED
              BY <6>1, <1>6, <2>3
          <6> QED
            BY <1>5, <3>3, <4>2, <6>2
        <5>2. \A m \in Succ(Top.node) \ Top.left : colour[m] = "black"
          BY <1>1, <1>2 DEF IInv, GreyIsPath
        <5>3. \A m \in Succ(Top.node) \ Top.left : colour'[m] = "black"
          BY <1>2, <1>10, <2>4, <5>2
        <5> QED
          BY <1>2, <1>4, <4>2, <5>1, <5>3
      <4>3. CASE i < L
        <5>1. i \in 1..L /\ i+1 \in 1..L /\ i # L /\ i < L + 1
          BY <1>2, <4>3
        <5>2. push[i] = stack[i] /\ push[i+1].node = stack[i+1].node
          BY <1>6, <2>3, <3>2, <5>1
        <5>3. /\ stack[i].left \subseteq Succ(stack[i].node)
              /\ stack[i+1].node \in Succ(stack[i].node)
              /\ \A m \in Succ(stack[i].node) \ stack[i].left :
                    colour[m] = "black" \/ m = stack[i+1].node
          BY <1>1, <4>3, <5>1 DEF IInv, GreyIsPath
        <5>4. Succ(stack[i].node) \subseteq Ids
          BY <1>2, SuccessorsAreIds DEF Succ
        <5>5. \A m \in Ids : colour[m] = "black" => colour'[m] = "black"
          BY <1>10, <2>4
        <5> QED
          BY <5>1, <5>2, <5>3, <5>4, <5>5
      <4> QED
        BY <1>2, <4>1, <4>2, <4>3
    <3> QED
      BY <1>10, <2>1, <2>3, <3>4, <3>5, <3>6 DEF GreyIsPath
  <2> QED
    BY <1>1, <1>10, <2>5, <2>6, <2>7 DEF IInv, AcceptedIsAcyclic, RejectedHasCause
<1> QED
  BY <1>3, <1>5, <1>8, <1>9, <1>10

(* A concept whose edges are all seen turns black (_assert_acyclic).        *)
LEMMA FinishStep ==
    ASSUME IInv, Finish
    PROVE  IInv'
<1> DEFINE L == Len(stack)
           t == Top.node
           pop == SubSeq(stack, 1, L - 1)
<1>1. /\ stage = "walk" /\ Searching /\ Top.left = {}
      /\ onto' = onto /\ todo' = todo /\ kind' = kind
      /\ colour' = [colour EXCEPT ![t] = "black"] /\ stack' = pop
      /\ stage' = IF L = 1 THEN "roots" ELSE "walk"
  BY DEF Finish, Searching
<1>2. /\ stack \in Seq(Frame) /\ L \in Nat \ {0}
      /\ Top = stack[L] /\ Top \in Frame
      /\ onto \in Ontologies /\ ~ Malformed(onto) /\ kind \in EdgeKind
      /\ Succ(t) \subseteq Ids /\ colour[t] = "grey"
  BY <1>1, TopOfStack
<1>3. t \in Ids
  BY <1>2 DEF Frame
<1>4. \A m \in Ids : colour'[m] = IF m = t THEN "black" ELSE colour[m]
  BY <1>1 DEF IInv, OntologyTypeOK
<1>5. /\ pop \in Seq(Frame) /\ Len(pop) = L - 1
      /\ \A i \in 1..L-1 : pop[i] = stack[i]
  BY <1>2, PopFacts
<1>6. \A m : Succ(m)' = Succ(m)
  BY <1>1 DEF Succ
<1>7. \A k : Succ(k) \subseteq Ids
  BY <1>2, SuccessorsAreIds DEF Succ
<1>8. \A m \in Succ(t) : colour[m] = "black"
  BY <1>1, <1>2 DEF IInv, GreyIsPath
<1>9. OntologyTypeOK' /\ Shape' /\ SearchedIsClean'
  <2>1. (pop # <<>>) <=> (L # 1)
    <3> HIDE DEF pop
    <3>1. pop = <<>> <=> Len(pop) = 0
      BY <1>5, EmptySeq
    <3> QED
      BY <1>2, <1>5, <3>1
  <2> QED
    BY <1>1, <1>2, <1>3, <1>5, <2>1
    DEF IInv, OntologyTypeOK, Shape, Searching, SearchedIsClean
<1>10. BlackIsClean'
  <2>1. \A m \in Ids : colour'[m] = "black" <=> m = t \/ colour[m] = "black"
    BY <1>4
  <2>2. \A k \in Ids : colour'[k] = "black" => \A m \in Succ(k) : colour'[m] = "black"
    BY <1>1, <1>7, <1>8, <2>1 DEF IInv, BlackIsClean
  <2>3. ASSUME NEW S \in SUBSET Ids, S # {}, \A k \in S : colour'[k] = "black"
        PROVE  \E k \in S : Succ(k) \cap S = {}
    <3>1. t \notin Succ(t)
      BY <1>2, <1>8
    <3>2. CASE S = {t}
      BY <3>1, <3>2
    <3>3. CASE S # {t}
      <4> DEFINE B == S \ {t}
      <4>1. B \in SUBSET Ids /\ B # {} /\ \A k \in B : colour[k] = "black"
        BY <2>1, <2>3, <3>3
      <4>2. PICK k \in B : Succ(k) \cap B = {}
        BY <1>1, <4>1 DEF IInv, BlackIsClean
      <4>3. t \notin Succ(k)
        BY <1>1, <1>2, <4>1 DEF IInv, BlackIsClean
      <4> QED
        BY <4>2, <4>3
    <3> QED
      BY <3>2, <3>3
  <2> QED
    BY <1>6, <2>2, <2>3 DEF BlackIsClean
<1>11. GreyIsPath'
  <2>1. \A m \in Ids : colour[m] = "grey" <=> \E i \in 1..L : stack[i].node = m
    BY <1>1 DEF IInv, GreyIsPath
  <2>2. \A i, j \in 1..L : stack[i].node = stack[j].node => i = j
    BY <1>1 DEF IInv, GreyIsPath
  <2>3. \A i : i \in 1..L <=> i \in 1..L-1 \/ i = L
    BY <1>2
  <2>4. L \in 1..L /\ L \notin 1..L-1 /\ \A i \in 1..L-1 : i # L
    BY <1>2
  <2>5. \A i \in 1..L-1 : stack[i].node # t
    BY <1>2, <2>2, <2>3, <2>4
  <2>6. \A m \in Ids : colour'[m] = "grey" <=> \E i \in 1..L-1 : pop[i].node = m
    BY <1>2, <1>4, <1>5, <2>1, <2>3, <2>5, SMTT(30)
  <2>7. \A i, j \in 1..L-1 : pop[i].node = pop[j].node => i = j
    BY <1>5, <2>2, <2>3
  <2>8. ASSUME NEW i \in 1..L-1
        PROVE  /\ pop[i].left \subseteq Succ(pop[i].node)
               /\ i < L-1 => pop[i+1].node \in Succ(pop[i].node)
               /\ \A m \in Succ(pop[i].node) \ pop[i].left :
                     colour'[m] = "black" \/ (i < L-1 /\ m = pop[i+1].node)
    <3>1. i \in 1..L /\ i < L /\ pop[i] = stack[i]
      BY <1>2, <1>5
    <3>2. /\ stack[i].left \subseteq Succ(stack[i].node)
          /\ stack[i+1].node \in Succ(stack[i].node)
          /\ \A m \in Succ(stack[i].node) \ stack[i].left :
                colour[m] = "black" \/ m = stack[i+1].node
      BY <1>1, <3>1 DEF IInv, GreyIsPath
    <3>3. \A m \in Ids : colour[m] = "black" => colour'[m] = "black"
      BY <1>4
    <3>4. CASE i < L-1
      <4>1. pop[i+1] = stack[i+1]
        BY <1>2, <1>5, <3>4
      <4> QED
        BY <1>7, <3>1, <3>2, <3>3, <3>4, <4>1
    <3>5. CASE i = L-1
      <4>1. stack[i+1].node = t /\ colour'[t] = "black"
        BY <1>2, <1>3, <1>4, <3>5
      <4> QED
        BY <1>7, <3>1, <3>2, <3>3, <3>5, <4>1
    <3> QED
      BY <1>2, <3>4, <3>5
  <2>9. Searching' => Len(stack') = L - 1 /\ \A i \in 1..L-1 : stack'[i] = pop[i]
    BY <1>1, <1>5 DEF Searching
  <2> HIDE DEF pop, L
  <2> QED
    BY <1>6, <2>6, <2>7, <2>8, <2>9 DEF GreyIsPath
<1> QED
  BY <1>1, <1>9, <1>10, <1>11 DEF IInv, AcceptedIsAcyclic, RejectedHasCause

------------------------------------------------------------------------------
(* The strengthened invariant of the search holds in every state.           *)
THEOREM SearchInvariant == OSpec => []IInv
<1>1. OInit => IInv
  BY InitIInv
<1>2. IInv /\ [ONext]_ovars => IInv'
  <2> SUFFICES ASSUME IInv, [ONext]_ovars
               PROVE  IInv'
    OBVIOUS
  <2>1. CASE UNCHANGED ovars
    BY <2>1
    DEF ovars, IInv, OntologyTypeOK, Shape, Searching, SearchedIsClean, BlackIsClean,
        GreyIsPath, Succ, AcceptedIsAcyclic, RejectedHasCause
  <2> QED
    BY <2>1, SubmitStep, NextTypeStep, RootStep, LookStep, FinishStep, ReturnStep
    DEF ONext, Validating
<1> QED
  BY <1>1, <1>2, PTL DEF OSpec

(* What validate accepts is well formed and has no cycle of any one type.   *)
THEOREM AcceptsOnlyAcyclic == OSpec => []AcceptedIsAcyclic
<1>1. IInv => AcceptedIsAcyclic
  BY DEF IInv
<1> QED
  BY <1>1, SearchInvariant, PTL

(* What validate refuses is malformed or has a cycle of one type.           *)
THEOREM RefusesOnlyForCause == OSpec => []RejectedHasCause
<1>1. IInv => RejectedHasCause
  BY DEF IInv
<1> QED
  BY <1>1, SearchInvariant, PTL


(* Every step of the composition is a step of the validator or leaves its   *)
(* variables alone.                                                         *)
THEOREM CurriculumValidates == CSpec => OSpec
<1>1. CInit => OInit
  BY DEF CInit
<1>2. [CNext]_cvars => [ONext]_ovars
  <2> SUFFICES ASSUME [CNext]_cvars
               PROVE  [ONext]_ovars
    OBVIOUS
  <2>1. ASSUME Validate
        PROVE  ONext
    BY <2>1 DEF Validate, ONext
  <2>2. ASSUME Apply \/ SeedFails
        PROVE  ONext
    BY <2>2 DEF Apply, SeedFails, ONext
  <2>3. ASSUME Assess \/ Relate \/ Forget \/ AskLive \/ Walk
        PROVE  UNCHANGED ovars
    BY <2>3 DEF Assess, Relate, Forget, AskLive, Walk, AskEdges, NextTarget, Visit, WalkOver,
                Answer
  <2>4. CASE UNCHANGED cvars
    BY <2>4 DEF cvars
  <2> QED
    BY <2>1, <2>2, <2>3, <2>4 DEF CNext
<1> QED
  BY <1>1, <1>2, PTL DEF CSpec, OSpec

(* No curriculum with a cycle of one edge type is ever written.             *)
THEOREM SeededIsAcyclic == CSpec => []AcceptedIsAcyclic
  BY CurriculumValidates, AcceptsOnlyAcyclic, PTL

------------------------------------------------------------------------------
(* A chain of prerequisites from a goal, without a repetition.              *)
Path(p) ==
    /\ p \in Seq(Node) /\ p # <<>> /\ p[1] \in ask.asked /\ IsInjective(p)
    /\ \A i \in 1..Len(p)-1 : p[i+1] \in Prerequisites(p[i])

Found(n) == \E r \in ask.out : Last(r) = n

(* A walk from goal t has seen nothing but what is behind it, and what it   *)
(* has seen and not followed is at the end of a path on its frontier.       *)
Walking(t) ==
    /\ t \in ask.asked \ ask.targets /\ t \in ask.seen
    /\ ask.seen \subseteq Reaches(t) \cup {t}
    /\ \A i \in DOMAIN ask.frontier :
         Path(ask.frontier[i]) /\ Range(ask.frontier[i]) \subseteq ask.seen
    /\ \A n \in ask.seen : \/ Unseen(n) = {}
                           \/ \E i \in DOMAIN ask.frontier : Last(ask.frontier[i]) = n
    /\ \A n \in Node : Found(n) <=>
         /\ ask.mastery[n] = "weak"
         /\ \/ n \in ask.seen /\ n # t
            \/ \E u \in Node : u \in ask.asked \ ask.targets /\ u # t /\ n \in Reaches(u)

(* What has been reported is what is behind the goals walked so far.        *)
WalkSound ==
    /\ DOMAIN ask = {"step", "asked", "targets", "live", "mastery", "edges", "seen",
                     "frontier", "out"}
    /\ ask.asked \subseteq Node /\ ask.live \subseteq Node
    /\ ask.targets \subseteq ask.asked /\ ask.seen \subseteq Node
    /\ ask.frontier \in Seq(Seq(Node))
    /\ ask.step \in {"idle", "live", "targets", "walk", "done"}
    /\ ask.step \in {"idle", "live"} => ask.out = {} /\ ask.targets = ask.asked
    /\ ask.step = "done" => ask.targets = {}
    /\ ask.step \in {"targets", "done"} =>
         \A n \in Node : Found(n) <=>
            /\ ask.mastery[n] = "weak"
            /\ \E u \in Node : u \in ask.asked \ ask.targets /\ n \in Reaches(u)
    /\ ask.step = "walk" => \E t \in ask.asked : Walking(t)
    /\ \A r \in ask.out : Path(r)
    /\ \A q, r \in ask.out : Last(q) = Last(r) => q = r

(* A path with one more node.                                               *)
LEMMA LongerPath ==
    ASSUME NEW S, NEW p \in Seq(S), p # <<>>, IsInjective(p), NEW x \in S, x \notin Range(p)
    PROVE  /\ Append(p, x) \in Seq(S) /\ Append(p, x) # <<>> /\ Append(p, x)[1] = p[1]
           /\ Last(Append(p, x)) = x /\ IsInjective(Append(p, x))
           /\ Range(Append(p, x)) = Range(p) \cup {x}
           /\ Len(Append(p, x)) = Len(p) + 1 /\ Len(p) \in Nat
           /\ \A i \in 1..Len(p) : Append(p, x)[i] = p[i]
           /\ Append(p, x)[Len(p) + 1] = x
<1> DEFINE q == Append(p, x)
<1>1. /\ Len(p) \in Nat \ {0} /\ q \in Seq(S) /\ Len(q) = Len(p) + 1
      /\ DOMAIN q = 1..(Len(p) + 1) /\ DOMAIN p = 1..Len(p)
      /\ \A i \in 1..Len(p) : q[i] = p[i]
      /\ q[Len(p) + 1] = x
  OBVIOUS
<1> HIDE DEF q
<1>2. q # <<>> /\ q[1] = p[1] /\ Last(q) = x
  BY <1>1 DEF Last
<1>3. Range(q) = Range(p) \cup {x}
  BY <1>1 DEF Range
<1>4. \A i \in 1..Len(p) : p[i] # x
  BY <1>1 DEF Range
<1>5. IsInjective(q)
  BY <1>1, <1>4 DEF IsInjective
<1> QED
  BY <1>1, <1>2, <1>3, <1>5 DEF q

(* A sequence without its last element.                                     *)
LEMMA LastAndFront ==
    ASSUME NEW S, NEW f \in Seq(S), f # <<>>
    PROVE  /\ Len(f) \in Nat \ {0} /\ Last(f) = f[Len(f)] /\ Last(f) \in S
           /\ Front(f) \in Seq(S) /\ Len(Front(f)) = Len(f) - 1
           /\ \A i \in 1..(Len(f) - 1) : Front(f)[i] = f[i]
<1> DEFINE n == Len(f)
<1>1. n \in Nat \ {0} /\ \A i \in 1..n : f[i] \in S
  OBVIOUS
<1>2. /\ SubSeq(f, 1, n - 1) \in Seq(S) /\ Len(SubSeq(f, 1, n - 1)) = n - 1
      /\ \A i \in 1..(n - 1) : SubSeq(f, 1, n - 1)[i] = f[i]
  BY <1>1
<1> QED
  BY <1>1, <1>2 DEF Last, Front

(* An order of a finite set has every element.                              *)
LEMMA OrderCovers ==
    ASSUME NEW S, IsFiniteSet(S), NEW order \in SetToSeqs(S)
    PROVE  /\ order \in Seq(S)
           /\ \A p \in S : \E i \in DOMAIN order : order[i] = p
<1> DEFINE n == Cardinality(S)
<1>1. n \in Nat
  BY FS_CardinalityType
<1>2. order \in [1..n -> S] /\ \A i, j \in 1..n : i # j => order[i] # order[j]
  BY DEF SetToSeqs
<1>3. order \in Injection(1..n, S)
  BY <1>2 DEF Injection, IsInjective
<1>4. IsFiniteSet(1..n) /\ Cardinality(1..n) = n
  BY <1>1, FS_Interval
<1>5. order \in Surjection(1..n, S)
  BY <1>3, <1>4, FS_Injection
<1> HIDE DEF n
<1>6. order \in Seq(S)
  BY <1>1, <1>2
<1> QED
  BY <1>2, <1>5, <1>6 DEF Surjection

(* A sequence and another one after it.                                     *)
LEMMA Joined ==
    ASSUME NEW S, NEW a \in Seq(S), NEW b \in Seq(S)
    PROVE  /\ Len(a \o b) = Len(a) + Len(b) /\ a \o b \in Seq(S)
           /\ DOMAIN (a \o b) = 1..Len(a \o b)
           /\ \A i \in 1..Len(a) : (a \o b)[i] = a[i]
           /\ \A i \in 1..Len(b) : (a \o b)[Len(a) + i] = b[i]
  OBVIOUS

(* What lies behind a node depends only on the nodes and edges read.        *)
LEMMA SameGraph ==
    ASSUME ask'.edges = ask.edges, ask'.live = ask.live, ask'.mastery = ask.mastery,
           ask'.asked = ask.asked
    PROVE  /\ \A n \in Node : Prerequisites(n)' = Prerequisites(n)
           /\ \A t \in Node : Reaches(t)' = Reaches(t)
           /\ \A p \in Seq(Node) : Path(p)' <=> Path(p)
<1>1. \A n \in Node : Prerequisites(n)' = Prerequisites(n)
  BY DEF Prerequisites
<1>2. \A C \in SUBSET Node : Closed(C)' <=> Closed(C)
  BY <1>1 DEF Closed
<1>3. \A t \in Node : Reaches(t)' = Reaches(t)
  BY <1>2 DEF Reaches
<1>4. ASSUME NEW p \in Seq(Node)
      PROVE  Path(p)' <=> Path(p)
  <2>1. Len(p) \in Nat /\ \A i \in 1..Len(p)-1 : p[i] \in Node
    OBVIOUS
  <2> QED
    BY <1>1, <2>1 DEF Path
<1> QED
  BY <1>1, <1>3, <1>4

(* What lies behind a node of a walk lies behind its goal.                  *)
LEMMA BehindBehind ==
    ASSUME NEW t \in Node, NEW n \in Reaches(t) \cup {t},
           NEW p \in Prerequisites(n) \cap ask.live, p # t, ask.live \subseteq Node
    PROVE  p \in Reaches(t)
  BY DEF Reaches, Closed

(* A walk with nothing on its frontier has seen all there is.               *)
LEMMA WalkComplete ==
    ASSUME NEW t \in Node, Walking(t), ask.frontier = <<>>, ask.seen \subseteq Node
    PROVE  ask.seen \ {t} = Reaches(t)
<1>1. Closed(ask.seen)
  <2>1. \A n \in ask.seen : Unseen(n) = {}
    BY DEF Walking
  <2> QED
    BY <2>1 DEF Closed, Unseen
<1>2. Reaches(t) \subseteq ask.seen \ {t}
  BY <1>1 DEF Reaches, Walking
<1> QED
  BY <1>2 DEF Walking

(* The next goal.                                                           *)
LEMMA TargetStep ==
    ASSUME WalkSound, NextTarget
    PROVE  WalkSound'
<1>1. CASE ask.targets = {}
  <2>1. ask' = [ask EXCEPT !.step = "done"]
    BY <1>1 DEF NextTarget
  <2>2. /\ DOMAIN ask' = DOMAIN ask /\ ask'.step = "done"
        /\ ask'.asked = ask.asked /\ ask'.targets = ask.targets /\ ask'.live = ask.live
        /\ ask'.mastery = ask.mastery /\ ask'.edges = ask.edges /\ ask'.seen = ask.seen
        /\ ask'.frontier = ask.frontier /\ ask'.out = ask.out
    BY <2>1 DEF WalkSound
  <2>3. \A n \in Node : (Found(n)' <=> Found(n)) /\ Reaches(n)' = Reaches(n)
    BY <2>2, SameGraph DEF Found
  <2>4. \A r \in ask.out : Path(r)'
    BY <2>2, SameGraph DEF WalkSound, Path
  <2>5. ask.step = "targets"
    BY DEF NextTarget
  <2>6. \A n \in Node : Found(n)' <=>
            /\ ask'.mastery[n] = "weak"
            /\ \E u \in Node : u \in ask'.asked \ ask'.targets /\ n \in Reaches(u)'
    BY <2>2, <2>3, <2>5 DEF WalkSound
  <2> QED
    BY <1>1, <2>2, <2>4, <2>6 DEF WalkSound
<1>2. CASE ask.targets # {}
  <2>1. PICK t \in ask.targets :
          ask' = [ask EXCEPT !.step = "walk", !.targets = @ \ {t}, !.seen = {t},
                             !.frontier = <<<<t>>>>]
    BY <1>2 DEF NextTarget
  <2>2. /\ DOMAIN ask' = DOMAIN ask /\ ask'.step = "walk"
        /\ ask'.asked = ask.asked /\ ask'.targets = ask.targets \ {t} /\ ask'.live = ask.live
        /\ ask'.mastery = ask.mastery /\ ask'.edges = ask.edges /\ ask'.seen = {t}
        /\ ask'.frontier = <<<<t>>>> /\ ask'.out = ask.out
    BY <2>1 DEF WalkSound
  <2>3. ask.step = "targets" /\ t \in Node /\ t \in ask.asked
    BY <2>2 DEF NextTarget, WalkSound
  <2>4. /\ <<t>> \in Seq(Node) /\ <<t>> # <<>> /\ <<t>>[1] = t /\ Len(<<t>>) = 1
        /\ DOMAIN <<t>> = {1}
    BY <2>3
  <2>5. Range(<<t>>) = {t} /\ Last(<<t>>) = t /\ IsInjective(<<t>>)
    BY <2>4 DEF Range, Last, IsInjective
  <2>6. Path(<<t>>)
    BY <2>3, <2>4, <2>5 DEF Path
  <2>7. /\ DOMAIN ask'.frontier = {1} /\ ask'.frontier[1] = <<t>>
        /\ ask'.frontier \in Seq(Seq(Node))
    BY <2>2, <2>4
  <2>8. Path(<<t>>)' /\ \A r \in ask.out : Path(r)'
    BY <2>2, <2>4, <2>6, SameGraph DEF WalkSound, Path
  <2>9. \A n \in Node : (Found(n)' <=> Found(n)) /\ Reaches(n)' = Reaches(n)
    BY <2>2, SameGraph DEF Found
  <2>10. \A n \in Node : Found(n)' <=>
           /\ ask'.mastery[n] = "weak"
           /\ \/ n \in ask'.seen /\ n # t
              \/ \E u \in Node : u \in ask'.asked \ ask'.targets /\ u # t /\ n \in Reaches(u)'
    BY <2>1, <2>2, <2>3, <2>9 DEF WalkSound
  <2>11. Walking(t)'
    BY <2>1, <2>2, <2>3, <2>5, <2>7, <2>8, <2>10 DEF Walking
  <2> QED
    BY <2>1, <2>2, <2>3, <2>7, <2>8, <2>11 DEF WalkSound
<1> QED
  BY <1>1, <1>2

(* The graph stays, and the walk goes on.                                   *)
LEMMA SameWalk ==
    ASSUME ask'.edges = ask.edges, ask'.live = ask.live, ask'.asked = ask.asked,
           ask'.mastery = ask.mastery, ask.seen \subseteq ask'.seen
    PROVE  \A n \in Node : Unseen(n)' = Unseen(n) \ ask'.seen
  BY SameGraph DEF Unseen

(* One turn of the walk.                                                    *)
LEMMA VisitStep ==
    ASSUME WalkSound, Visit
    PROVE  WalkSound'
<1> DEFINE f == ask.frontier
           path == Last(f)
           n == Last(path)
           new == Unseen(n)
<1>1. PICK order \in SetToSeqs(new) :
        ask' = [ask EXCEPT !.seen = @ \cup new,
                   !.frontier = Front(@) \o [i \in DOMAIN order |-> Append(path, order[i])],
                   !.out = @ \cup Reported({Append(path, p) : p \in new})]
  BY DEF Visit
<1> DEFINE ext == [i \in DOMAIN order |-> Append(path, order[i])]
           more == {Append(path, p) : p \in new}
<1>2. /\ DOMAIN ask' = DOMAIN ask /\ ask'.step = ask.step
      /\ ask'.asked = ask.asked /\ ask'.targets = ask.targets /\ ask'.live = ask.live
      /\ ask'.mastery = ask.mastery /\ ask'.edges = ask.edges /\ ask'.seen = ask.seen \cup new
      /\ ask'.frontier = Front(f) \o ext /\ ask'.out = ask.out \cup Reported(more)
  BY <1>1 DEF WalkSound
<1>3. ask.step = "walk" /\ f # <<>> /\ f \in Seq(Seq(Node))
  BY DEF Visit, WalkSound
<1>4. PICK t \in ask.asked : Walking(t)
  BY <1>3 DEF WalkSound
<1>5. t \in Node /\ t \in ask.seen /\ ask.seen \subseteq Node /\ ask.live \subseteq Node
  BY <1>4 DEF WalkSound, Walking
<1>6. /\ Len(f) \in Nat \ {0} /\ path = f[Len(f)] /\ path \in Seq(Node)
      /\ Front(f) \in Seq(Seq(Node)) /\ Len(Front(f)) = Len(f) - 1
      /\ \A i \in 1..(Len(f) - 1) : Front(f)[i] = f[i]
  BY <1>3, LastAndFront, Zenon
<1>7. DOMAIN f = 1..Len(f)
  BY <1>3
<1>8. Path(path) /\ Range(path) \subseteq ask.seen
  <2>1. \A i \in DOMAIN f : Path(f[i]) /\ Range(f[i]) \subseteq ask.seen
    BY <1>4 DEF Walking
  <2>2. Len(f) \in DOMAIN f /\ path = f[Len(f)]
    BY <1>6, <1>7
  <2> HIDE DEF f, path
  <2> QED
    BY <2>1, <2>2
<1>9. path # <<>> /\ IsInjective(path) /\ path[1] \in ask.asked
  BY <1>8 DEF Path
<1> HIDE DEF f, path, new
<1>10. n = path[Len(path)] /\ Len(path) \in Nat \ {0} /\ n \in Node
  BY <1>6, <1>9, LastAndFront
<1>11. n \in ask.seen
  BY <1>6, <1>8, <1>10 DEF Range
<1>12. new \subseteq Node /\ new \cap ask.seen = {} /\ new = Unseen(n)
       /\ \A x \in new : x \in Prerequisites(n) \cap ask.live
  BY <1>5 DEF Unseen, new
<1> HIDE DEF n
<1>13. IsFiniteSet(new)
  BY <1>12, NodesFinite, FS_Subset
<1>14. order \in Seq(new) /\ \A x \in new : \E i \in DOMAIN order : order[i] = x
  BY <1>13, OrderCovers
<1>15. Len(order) \in Nat /\ DOMAIN order = 1..Len(order)
       /\ \A i \in 1..Len(order) : order[i] \in new
  BY <1>14
<1>16. ASSUME NEW x \in new
       PROVE  /\ Append(path, x) \in Seq(Node) /\ Path(Append(path, x))
              /\ Last(Append(path, x)) = x
              /\ Range(Append(path, x)) = Range(path) \cup {x}
  <2> DEFINE q == Append(path, x)
  <2>1. x \in Node /\ x \notin Range(path) /\ x \in Prerequisites(n)
    BY <1>8, <1>12
  <2>2. /\ q \in Seq(Node) /\ q # <<>> /\ q[1] = path[1]
        /\ Last(q) = x /\ IsInjective(q)
        /\ Range(q) = Range(path) \cup {x}
        /\ Len(q) = Len(path) + 1 /\ Len(path) \in Nat
        /\ \A i \in 1..Len(path) : q[i] = path[i]
        /\ q[Len(path) + 1] = x
    BY <1>6, <1>9, <2>1, LongerPath
  <2> HIDE DEF q
  <2>3. ASSUME NEW i \in 1..Len(q)-1
        PROVE  q[i+1] \in Prerequisites(q[i])
    <3>1. CASE i = Len(path)
      BY <1>10, <2>1, <2>2, <3>1
    <3>2. CASE i # Len(path)
      <4>1. i \in 1..Len(path)-1 /\ i \in 1..Len(path) /\ i+1 \in 1..Len(path)
        BY <2>2, <3>2
      <4>2. path[i+1] \in Prerequisites(path[i])
        BY <1>8, <4>1 DEF Path
      <4> QED
        BY <2>2, <4>1, <4>2
    <3> QED
      BY <3>1, <3>2
  <2>4. Path(q)
    BY <1>9, <2>2, <2>3 DEF Path
  <2> QED
    BY <2>2, <2>4 DEF q
<1>17. ext \in Seq(Seq(Node)) /\ Len(ext) = Len(order)
       /\ \A i \in 1..Len(order) : ext[i] = Append(path, order[i])
  <2>1. \A i \in 1..Len(order) : Append(path, order[i]) \in Seq(Node)
    BY <1>15, <1>16
  <2>2. ext = [i \in 1..Len(order) |-> Append(path, order[i])]
    BY <1>15
  <2>3. ext \in [1..Len(order) -> Seq(Node)]
    BY <2>1, <2>2
  <2> QED
    BY <1>15, <2>2, <2>3
<1> DEFINE g == Front(f) \o ext
           k == Len(f) - 1
<1> HIDE DEF ext
<1>18. /\ k \in Nat /\ g \in Seq(Seq(Node)) /\ DOMAIN g = 1..(k + Len(order))
       /\ \A i \in 1..k : g[i] = f[i]
       /\ \A i \in 1..Len(order) : g[k + i] = Append(path, order[i])
  <2>1. /\ Len(g) = Len(Front(f)) + Len(ext) /\ g \in Seq(Seq(Node))
        /\ DOMAIN g = 1..Len(g)
        /\ \A i \in 1..Len(Front(f)) : g[i] = Front(f)[i]
        /\ \A i \in 1..Len(ext) : g[Len(Front(f)) + i] = ext[i]
    <3> DEFINE h == Front(f)
               S == Seq(Node)
    <3>1. h \in Seq(S) /\ ext \in Seq(S) /\ g = h \o ext
      BY <1>6, <1>17
    <3> HIDE DEF h, g, S
    <3>2. /\ Len(h \o ext) = Len(h) + Len(ext) /\ h \o ext \in Seq(S)
          /\ DOMAIN (h \o ext) = 1..Len(h \o ext)
          /\ \A i \in 1..Len(h) : (h \o ext)[i] = h[i]
          /\ \A i \in 1..Len(ext) : (h \o ext)[Len(h) + i] = ext[i]
      BY <3>1, Joined
    <3>3. /\ Len(g) = Len(h) + Len(ext) /\ g \in Seq(S)
          /\ DOMAIN g = 1..Len(g)
          /\ \A i \in 1..Len(h) : g[i] = h[i]
          /\ \A i \in 1..Len(ext) : g[Len(h) + i] = ext[i]
      BY <3>1, <3>2
    <3> QED
      BY <3>3 DEF h, S
  <2>2. k \in Nat /\ Len(Front(f)) = k /\ Len(ext) = Len(order)
    BY <1>6, <1>17
  <2> HIDE DEF g, k
  <2> QED
    BY <1>6, <1>17, <2>1, <2>2
<1> HIDE DEF g, k
<1>19. ASSUME NEW i \in DOMAIN g
       PROVE  (i \in 1..k /\ g[i] = f[i]) \/ \E x \in new : g[i] = Append(path, x)
  <2>1. CASE i \in 1..k
    BY <1>18, <2>1
  <2>2. CASE i \notin 1..k
    <3>1. i - k \in 1..Len(order) /\ k + (i - k) = i
      BY <1>15, <1>18, <2>2
    <3> QED
      BY <1>15, <1>18, <3>1
  <2> QED
    BY <2>1, <2>2
<1>20. /\ \A i \in 1..k : i \in DOMAIN g /\ g[i] = f[i]
       /\ \A x \in new : \E i \in DOMAIN g : g[i] = Append(path, x)
  <2>1. ASSUME NEW x \in new
        PROVE  \E i \in DOMAIN g : g[i] = Append(path, x)
    <3>1. PICK i \in 1..Len(order) : order[i] = x
      BY <1>14, <1>15
    <3>2. k + i \in DOMAIN g /\ g[k + i] = Append(path, x)
      BY <1>15, <1>18, <3>1
    <3> QED
      BY <3>2
  <2> QED
    BY <1>15, <1>18, <2>1
<1>21. /\ \A m \in Node : Reaches(m)' = Reaches(m)
       /\ \A p \in Seq(Node) : Path(p)' <=> Path(p)
       /\ \A m \in Node : Unseen(m)' = Unseen(m) \ ask'.seen
  BY <1>2, SameGraph, SameWalk
<1>22. ask'.seen \subseteq Reaches(t)' \cup {t} /\ ask'.seen \subseteq Node
  <2>1. \A x \in new : x \in Reaches(t)
    BY <1>4, <1>5, <1>11, <1>12, BehindBehind DEF Walking
  <2> QED
    BY <1>2, <1>4, <1>5, <1>12, <1>21, <2>1 DEF Walking
<1>23. ASSUME NEW i \in DOMAIN g
       PROVE  Path(g[i]) /\ Range(g[i]) \subseteq ask'.seen
  <2>1. CASE i \in 1..k /\ g[i] = f[i]
    <3>1. i \in DOMAIN f
      BY <1>6, <1>7, <2>1 DEF k
    <3>2. Path(f[i]) /\ Range(f[i]) \subseteq ask.seen
      BY <1>4, <3>1 DEF Walking, f
    <3> QED
      BY <1>2, <2>1, <3>2
  <2>2. ASSUME NEW x \in new, g[i] = Append(path, x)
        PROVE  Path(g[i]) /\ Range(g[i]) \subseteq ask'.seen
    BY <1>2, <1>8, <1>16, <2>2
  <2> QED
    BY <1>19, <2>1, <2>2
<1>24. ASSUME NEW m \in ask'.seen
       PROVE  Unseen(m)' = {} \/ \E i \in DOMAIN g : Last(g[i]) = m
  <2>1. CASE m \in new
    BY <1>16, <1>20, <2>1
  <2>2. CASE m \in ask.seen
    <3>1. m \in Node /\ Unseen(m)' = Unseen(m) \ ask'.seen
      BY <1>5, <1>21, <2>2
    <3>2. CASE Unseen(m) = {} \/ m = n
      BY <1>2, <1>12, <3>1, <3>2
    <3>3. CASE Unseen(m) # {} /\ m # n
      <4>1. PICK i \in DOMAIN f : Last(f[i]) = m
        BY <1>4, <2>2, <3>3 DEF Walking, f
      <4>2. i # Len(f)
        BY <1>6, <3>3, <4>1 DEF n
      <4>3. i \in 1..k
        BY <1>6, <1>7, <4>1, <4>2 DEF k
      <4> QED
        BY <1>20, <4>1, <4>3
    <3> QED
      BY <3>2, <3>3
  <2> QED
    BY <1>2, <2>1, <2>2
<1>25. \A r \in Reported(more) : \E x \in new :
         /\ r = Append(path, x) /\ Last(r) = x /\ Path(r)
         /\ ask.mastery[x] = "weak" /\ ~ Found(x)
  BY <1>16, ZenonT(60) DEF Reported, Found
<1>26. ASSUME NEW x \in new, ask.mastery[x] = "weak", ~ Found(x)
       PROVE  Append(path, x) \in Reported(more)
  BY <1>16, <1>26 DEF Reported, Found
<1> HIDE DEF more
<1>27. \A m \in Node : Found(m)' <=> Found(m) \/ (m \in new /\ ask.mastery[m] = "weak")
  <2>1. ASSUME NEW m \in Node, Found(m)', ~ Found(m)
        PROVE  m \in new /\ ask.mastery[m] = "weak"
    BY <1>2, <1>25, <2>1 DEF Found
  <2>2. ASSUME NEW m \in Node, Found(m)
        PROVE  Found(m)'
    BY <1>2, <2>2 DEF Found
  <2>3. ASSUME NEW m \in new, ask.mastery[m] = "weak", ~ Found(m)
        PROVE  Found(m)'
    <3>1. Append(path, m) \in ask'.out /\ Last(Append(path, m)) = m
      BY <1>2, <1>16, <1>26, <2>3
    <3> QED
      BY <3>1 DEF Found
  <2> QED
    BY <2>1, <2>2, <2>3
<1>28. \A m \in Node : Found(m)' <=>
         /\ ask'.mastery[m] = "weak"
         /\ \/ m \in ask'.seen /\ m # t
            \/ \E u \in Node : u \in ask'.asked \ ask'.targets /\ u # t /\ m \in Reaches(u)'
  <2>1. \A m \in new : m # t
    BY <1>5, <1>12
  <2>2. \A m \in Node : Found(m) <=>
         /\ ask.mastery[m] = "weak"
         /\ \/ m \in ask.seen /\ m # t
            \/ \E u \in Node : u \in ask.asked \ ask.targets /\ u # t /\ m \in Reaches(u)
    BY <1>4 DEF Walking
  <2> QED
    BY <1>2, <1>21, <1>27, <2>1, <2>2
<1>29. ask'.frontier = g
  BY <1>2 DEF g
<1>30. Walking(t)'
  <2>1. /\ t \in ask'.asked \ ask'.targets /\ t \in ask'.seen
    BY <1>2, <1>4 DEF Walking
  <2>2. \A i \in DOMAIN ask'.frontier :
          Path(ask.frontier[i])' /\ Range(ask'.frontier[i]) \subseteq ask'.seen
    BY <1>2, <1>21, <1>23, <1>29 DEF Path
  <2>3. \A m \in ask'.seen : \/ Unseen(m)' = {}
                             \/ \E i \in DOMAIN ask'.frontier : Last(ask'.frontier[i]) = m
    BY <1>24, <1>29
  <2> QED
    BY <1>22, <1>28, <2>1, <2>2, <2>3 DEF Walking
<1>31. \A r \in ask'.out : Path(r)'
  BY <1>2, <1>21, <1>25 DEF WalkSound, Path
<1>32. ASSUME NEW q \in ask'.out, NEW r \in ask'.out, Last(q) = Last(r)
       PROVE  q = r
  <2>1. \A a, b \in ask.out : Last(a) = Last(b) => a = b
    BY DEF WalkSound
  <2>2. \A a \in ask.out : Found(Last(a))
    BY DEF Found
  <2>3. \A a, b \in Reported(more) : Last(a) = Last(b) => a = b
    BY <1>25
  <2>4. \A a \in Reported(more) : ~ Found(Last(a))
    BY <1>25
  <2> QED
    BY <1>2, <1>32, <2>1, <2>2, <2>3, <2>4
<1> QED
  <2>1. ask'.frontier \in Seq(Seq(Node))
    BY <1>18, <1>29
  <2>2. ask'.step = "walk" /\ t \in ask'.asked
    BY <1>2, <1>3
  <2>3. /\ DOMAIN ask' = {"step", "asked", "targets", "live", "mastery", "edges", "seen",
                     "frontier", "out"}
        /\ ask'.asked \subseteq Node /\ ask'.live \subseteq Node
        /\ ask'.targets \subseteq ask'.asked /\ ask'.seen \subseteq Node
    BY <1>2, <1>22 DEF WalkSound
  <2> QED
    BY <1>30, <1>31, <1>32, <2>1, <2>2, <2>3 DEF WalkSound

(* The walk from one goal has ended.                                        *)
LEMMA WalkOverStep ==
    ASSUME WalkSound, WalkOver
    PROVE  WalkSound'
<1>1. ask.step = "walk" /\ ask.frontier = <<>> /\ ask' = [ask EXCEPT !.step = "targets"]
  BY DEF WalkOver
<1>2. /\ DOMAIN ask' = DOMAIN ask /\ ask'.step = "targets"
      /\ ask'.asked = ask.asked /\ ask'.targets = ask.targets /\ ask'.live = ask.live
      /\ ask'.mastery = ask.mastery /\ ask'.edges = ask.edges /\ ask'.seen = ask.seen
      /\ ask'.frontier = ask.frontier /\ ask'.out = ask.out
  BY <1>1 DEF WalkSound
<1>3. PICK t \in ask.asked : Walking(t)
  BY <1>1 DEF WalkSound
<1>4. t \in Node /\ ask.seen \subseteq Node /\ t \notin ask.targets
  BY <1>3 DEF WalkSound, Walking
<1>5. ask.seen \ {t} = Reaches(t)
  BY <1>1, <1>3, <1>4, WalkComplete
<1>6. \A n \in Node : (Found(n)' <=> Found(n)) /\ Reaches(n)' = Reaches(n)
  BY <1>2, SameGraph DEF Found
<1>7. \A r \in ask.out : Path(r)'
  BY <1>2, SameGraph DEF WalkSound, Path
<1>8. \A n \in Node : Found(n) <=>
        /\ ask.mastery[n] = "weak"
        /\ \/ n \in ask.seen /\ n # t
           \/ \E u \in Node : u \in ask.asked \ ask.targets /\ u # t /\ n \in Reaches(u)
  BY <1>3 DEF Walking
<1>9. \A n \in Node : Found(n) <=>
        /\ ask.mastery[n] = "weak"
        /\ \E u \in Node : u \in ask.asked \ ask.targets /\ n \in Reaches(u)
  <2>1. \A n \in Node : (n \in ask.seen /\ n # t) <=> n \in Reaches(t)
    BY <1>5
  <2>2. t \in ask.asked \ ask.targets
    BY <1>3, <1>4
  <2> QED
    BY <1>4, <1>8, <2>1, <2>2
<1>10. \A n \in Node : Found(n)' <=>
        /\ ask'.mastery[n] = "weak"
        /\ \E u \in Node : u \in ask'.asked \ ask'.targets /\ n \in Reaches(u)'
  BY <1>2, <1>6, <1>9
<1> QED
  BY <1>2, <1>7, <1>10 DEF WalkSound

(* A request has reported nothing before it walks.                          *)
Asking ==
    /\ DOMAIN ask = {"step", "asked", "targets", "live", "mastery", "edges", "seen",
                     "frontier", "out"}
    /\ ask.asked \subseteq Node /\ ask.live \subseteq Node /\ ask.targets = ask.asked
    /\ ask.seen \subseteq Node /\ ask.frontier \in Seq(Seq(Node))
    /\ ask.step \in {"idle", "live", "targets"} /\ ask.out = {}

(* Nothing is behind the goals walked so far when there are none.           *)
LEMMA AskingIsSound == Asking => WalkSound
<1> SUFFICES ASSUME Asking
             PROVE  WalkSound
  OBVIOUS
<1>1. \A n \in Node : ~ Found(n)
  BY DEF Asking, Found
<1> QED
  BY <1>1 DEF Asking, WalkSound

(* No request at all.                                                       *)
LEMMA NoRequest == ask = Request => Asking
<1> SUFFICES ASSUME ask = Request
             PROVE  Asking
  OBVIOUS
<1>1. /\ DOMAIN ask = {"step", "asked", "targets", "live", "mastery", "edges", "seen",
                       "frontier", "out"}
      /\ ask.step = "idle" /\ ask.asked = {} /\ ask.targets = {} /\ ask.live = {}
      /\ ask.seen = {} /\ ask.frontier = <<>> /\ ask.out = {}
  BY DEF Request
<1>2. ask.frontier \in Seq(Seq(Node))
  BY <1>1
<1> QED
  BY <1>1, <1>2 DEF Asking

(* A request that reads the nodes or the edges, or is answered.             *)
LEMMA ReadStep ==
    ASSUME WalkSound, AskLive \/ AskEdges \/ Answer
    PROVE  Asking'
<1>1. CASE AskLive
  <2>1. PICK T \in SUBSET Live(row) :
          ask' = [Request EXCEPT
                    !.step = "live", !.targets = T, !.asked = T, !.live = Live(row),
                    !.mastery = [n \in Node |-> row[n].mastery]]
    BY <1>1 DEF AskLive
  <2>2. /\ DOMAIN ask' = {"step", "asked", "targets", "live", "mastery", "edges", "seen",
                          "frontier", "out"}
        /\ ask'.step = "live" /\ ask'.asked = T /\ ask'.targets = T /\ ask'.live = Live(row)
        /\ ask'.seen = {} /\ ask'.frontier = <<>> /\ ask'.out = {}
    BY <2>1 DEF Request
  <2>3. T \subseteq Node /\ Live(row) \subseteq Node /\ ask'.frontier \in Seq(Seq(Node))
    BY <2>2 DEF Live
  <2> QED
    BY <2>2, <2>3 DEF Asking
<1>2. CASE AskEdges
  <2>1. /\ ask.step = "live"
        /\ ask' = [ask EXCEPT !.step = "targets",
                              !.edges = {e \in edges : Ends(e) \cap ask.live # {}}]
    BY <1>2 DEF AskEdges
  <2>2. /\ DOMAIN ask' = DOMAIN ask /\ ask'.step = "targets" /\ ask'.asked = ask.asked
        /\ ask'.targets = ask.targets /\ ask'.live = ask.live /\ ask'.seen = ask.seen
        /\ ask'.frontier = ask.frontier /\ ask'.out = ask.out
    BY <2>1 DEF WalkSound
  <2> QED
    BY <2>1, <2>2 DEF WalkSound, Asking
<1>3. CASE Answer
  <2>1. ask' = Request
    BY <1>3 DEF Answer
  <2>2. (ask = Request)' => Asking'
    BY NoRequest, PTL
  <2>3. Request' = Request
    BY DEF Request
  <2> QED
    BY <2>1, <2>2, <2>3
<1> QED
  BY <1>1, <1>2, <1>3

(* No other step touches the request.                                       *)
LEMMA RequestStays ==
    ASSUME WalkSound, UNCHANGED ask
    PROVE  WalkSound'
<1>1. \A p : Path(p)' <=> Path(p)
  BY DEF Path, Prerequisites
<1>2. \A n : (Found(n)' <=> Found(n)) /\ Unseen(n)' = Unseen(n)
  BY DEF Found, Unseen, Prerequisites
<1>3. \A C \in SUBSET Node : Closed(C)' <=> Closed(C)
  BY DEF Closed, Prerequisites
<1>4. \A t : Reaches(t)' = Reaches(t)
  BY <1>3 DEF Reaches
<1>5. ASSUME NEW t, Walking(t)
      PROVE  Walking(t)'
  <2>1. \A i \in DOMAIN ask.frontier : Path(ask.frontier[i])'
    BY <1>1, <1>5 DEF Walking, Path
  <2> QED
    BY <1>2, <1>4, <1>5, <2>1 DEF Walking
<1>6. \A r \in ask.out : Path(r)'
  BY <1>1 DEF WalkSound
<1>7. ask.step \in {"targets", "done"} =>
         \A n \in Node : Found(n)' <=>
            /\ ask.mastery[n] = "weak"
            /\ \E u \in Node : u \in ask.asked \ ask.targets /\ n \in Reaches(u)'
  BY <1>2, <1>4 DEF WalkSound
<1>8. ask.step = "walk" => \E t \in ask.asked : Walking(t)'
  BY <1>5 DEF WalkSound
<1> QED
  BY <1>6, <1>7, <1>8 DEF WalkSound

(* The invariant of the walk.                                               *)
THEOREM WalkStaysSound == CSpec => []WalkSound
<1>1. CInit => WalkSound
  BY AskingIsSound, NoRequest DEF CInit
<1>2. WalkSound /\ [CNext]_cvars => WalkSound'
  <2> SUFFICES ASSUME WalkSound, [CNext]_cvars
               PROVE  WalkSound'
    OBVIOUS
  <2>1. CASE Validate
    BY <2>1, RequestStays DEF Validate
  <2>2. CASE Apply \/ SeedFails
    BY <2>2, RequestStays DEF Apply, SeedFails
  <2>3. CASE Assess \/ Relate \/ Forget
    BY <2>3, RequestStays DEF Assess, Relate, Forget
  <2>4. CASE AskLive \/ AskEdges \/ Answer
    <3>1. Asking'
      BY <2>4, ReadStep
    <3>2. Asking' => WalkSound'
      BY AskingIsSound, PTL
    <3> QED
      BY <3>1, <3>2
  <2>5. CASE NextTarget
    BY <2>5, TargetStep
  <2>6. CASE Visit
    BY <2>6, VisitStep
  <2>7. CASE WalkOver
    BY <2>7, WalkOverStep
  <2>8. CASE UNCHANGED cvars
    BY <2>8, RequestStays DEF cvars
  <2> QED
    BY <2>1, <2>2, <2>3, <2>4, <2>5, <2>6, <2>7, <2>8 DEF CNext, Walk
<1> QED
  BY <1>1, <1>2, PTL DEF CSpec

(* What insights report as blocking the goals is what lies behind them and  *)
(* is weak, each concept once and with a path of its own: in any finite     *)
(* graph, whatever cycles it has, and in whatever order nodes are taken.    *)
THEOREM BlockersAreExact == CSpec => []BlockersExact
<1>1. WalkSound => BlockersExact
  <2> SUFFICES ASSUME WalkSound, ask.step = "done"
               PROVE  /\ {Last(r) : r \in ask.out} =
                           {n \in UNION {Reaches(t) : t \in ask.asked} : ask.mastery[n] = "weak"}
                      /\ \A q, r \in ask.out : Last(q) = Last(r) => q = r
                      /\ \A r \in ask.out :
                           /\ r[1] \in ask.asked /\ IsInjective(r)
                           /\ \A i \in 1..Len(r)-1 : r[i+1] \in Prerequisites(r[i])
    BY DEF BlockersExact
  <2>1. \A r \in ask.out : Last(r) \in Node
    BY LastAndFront DEF WalkSound, Path
  <2>2. \A n \in Node : Found(n) <=>
            /\ ask.mastery[n] = "weak"
            /\ \E t \in ask.asked : n \in Reaches(t)
    BY DEF WalkSound
  <2>3. \A t \in ask.asked : Reaches(t) \subseteq Node
    BY DEF Reaches
  <2>4. {Last(r) : r \in ask.out} =
          {n \in UNION {Reaches(t) : t \in ask.asked} : ask.mastery[n] = "weak"}
    BY <2>1, <2>2, <2>3 DEF Found
  <2> QED
    BY <2>4 DEF WalkSound, Path
<1> QED
  BY <1>1, WalkStaysSound, PTL
==============================================================================
