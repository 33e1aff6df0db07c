----------------------------- MODULE LearnerGraph -----------------------------
(***************************************************************************)
(* The tables engram_nodes and engram_edges of one learner as values, and  *)
(* what the storage transactions compute on them.  A label stands for its  *)
(* normalized text.  A node keeps the vector of the text it was created or *)
(* seeded with (`vec`) while its label may change; Twin and Near are the   *)
(* bands in which Keeper compares the vectors of two texts.                *)
(***************************************************************************)
EXTENDS Naturals, Sequences

CONSTANTS DynId,     \* ids of nodes the Keeper inserts
          OntId,     \* external ids of curriculum concepts, also their node ids
          Label,
          KindOf,    \* the node type a label is extracted with
          Detail,    \* canonical_label's score: words, then letters
          Twin,      \* pairs of texts whose vectors have a cosine >= tau_high
          Near,      \* pairs between tau_low and tau_high: the reflector decides
          MaxSal     \* salience 1.0; 0 is any value below prune_floor

NodeId == DynId \cup OntId

Status == {"absent", "live", "forgotten", "merged"}

NodeRow == [status: Status, label: Label, vec: Label, sal: 0..MaxSal]

Fresh(x, sal) == [status |-> "live", label |-> x, vec |-> x, sal |-> sal]

EdgeType == {"relates_to", "part_of", "prerequisite"}

Edge == [src: NodeId, dst: NodeId, type: EdgeType]

(* edges.EDGE_RANK *)
Rank == [relates_to |-> 0, part_of |-> 1, prerequisite |-> 2]

Pair(e) == {e.src, e.dst}

Live(nodes) == {n \in NodeId : nodes[n].status = "live"}

Kind(nodes, n) == KindOf[nodes[n].label]

(* _labels_match, or a cosine >= tau_high; a zero vector has none.          *)
Twins(row, x, v) == row.label = x \/ row.vec = v \/ {row.vec, v} \in Twin

Alike(row, v) == {row.vec, v} \in Near

Canonical(current, candidate) ==
    IF Detail[candidate] > Detail[current] THEN candidate ELSE current

Stronger(a, b) == IF a > b THEN a ELSE b

------------------------------------------------------------------------------
(* keeper._reconcile_edges, one relation: a pair keeps one edge; a higher-  *)
(* ranked type replaces type and direction, anything else changes nothing.  *)
Propose(edges, r) ==
    IF \E e \in edges : Pair(e) = Pair(r)
    THEN {IF Pair(e) = Pair(r) /\ Rank[r.type] > Rank[e.type] THEN r ELSE e : e \in edges}
    ELSE edges \cup {r}

(* Its loop over the relations, in order: what is known after k of them.    *)
ReconcileLoop(known, relations) ==
    LET after[k \in 0..Len(relations)] ==
            IF k = 0 THEN known
            ELSE IF relations[k].src = relations[k].dst THEN after[k-1]
            ELSE Propose(after[k-1], relations[k])
    IN  after[Len(relations)]

\* Slip: a proposal wins over what is known.
Reconcile_Overwrite(known, relations) ==
    LET real == {i \in DOMAIN relations : relations[i].src # relations[i].dst}
    IN  {k \in known : \A i \in real : Pair(relations[i]) # Pair(k)}
        \cup {relations[i] : i \in {i \in real : \A j \in real :
                Pair(relations[j]) = Pair(relations[i]) => i <= j}}

(* What the loop leaves: of an edge of the graph and the relations proposed *)
(* for its pair the highest rank, of equals the first.                      *)
Reconcile(known, relations) ==
    LET real == {i \in DOMAIN relations : relations[i].src # relations[i].dst}
        Above(e, f) == Pair(e) = Pair(f) /\ Rank[e.type] > Rank[f.type]
    IN  {k \in known : \A i \in real : ~Above(relations[i], k)}
        \cup {relations[i] : i \in {i \in real :
                /\ \A k \in known : Pair(k) = Pair(relations[i]) => Above(relations[i], k)
                /\ \A j \in real : /\ ~Above(relations[j], relations[i])
                                   /\ j < i => \/ Pair(relations[j]) # Pair(relations[i])
                                               \/ Above(relations[i], relations[j])}}

(* Edges of S between the two nodes of e.                                   *)
On(S, e) == {f \in S : Pair(f) = Pair(e)}

(* apply_consolidation: UPDATE the upgraded rows that still exist, INSERT   *)
(* the new ones.                                                            *)
ApplyEdges(edges, known, planned) ==
    LET upgraded == {e \in planned \ known : On(known, e) # {} /\ On(known, e) \subseteq edges}
        new == {e \in planned : On(known, e) = {}}
    IN  {e \in edges : On(upgraded, e) = {}} \cup upgraded \cup new

------------------------------------------------------------------------------
(* merge_nodes.  A direct edge goes; where both nodes have an edge to x the *)
(* higher rank stays, and `tie` (the edges' random ids) decides between     *)
(* equal ranks.                                                             *)
Collide(e, f, pair) ==
    e # f /\ Pair(e) \cap pair # {} /\ Pair(e) \ pair = Pair(f) \ pair

Weaker(e, f, tie) ==
    Rank[e.type] < Rank[f.type] \/ (Rank[e.type] = Rank[f.type] /\ tie \in Pair(f))

Kept(edges, pair, tie) ==
    {e \in edges : /\ Pair(e) # pair
                   /\ \A f \in edges : Pair(f) # pair /\ Collide(e, f, pair) => ~Weaker(e, f, tie)}

(* What remains is repointed from drop to keep.                             *)
Moved(e, keep, drop) ==
    LET To(n) == IF n = drop THEN keep ELSE n
    IN  [src |-> To(e.src), dst |-> To(e.dst), type |-> e.type]

\* Slip: only outgoing edges are repointed.
MergeEdges_SourceOnly(edges, keep, drop, tie) ==
    {[e EXCEPT !.src = IF @ = drop THEN keep ELSE @] : e \in Kept(edges, {keep, drop}, tie)}

\* Slip: no collision is resolved before the repoint.
MergeEdges_NoCollisions(edges, keep, drop, tie) ==
    {Moved(e, keep, drop) : e \in {x \in edges : Pair(x) # {keep, drop}}}

MergeEdges(edges, keep, drop, tie) ==
    {Moved(e, keep, drop) : e \in Kept(edges, {keep, drop}, tie)}

(* The node rows after the merge: keep takes the more canonical label and   *)
(* the larger salience but no vector, drop is soft-forgotten.               *)
MergeRows(nodes, keep, drop) ==
    [nodes EXCEPT ![keep].label = Canonical(@, nodes[drop].label),
                  ![keep].sal = Stronger(@, nodes[drop].sal),
                  ![drop].status = "merged"]

(* _find_dup_pair: pairs of live dynamic nodes of one type; `maybe` holds   *)
(* those for which the reflector is asked.                                  *)
DupPairs(nodes) ==
    {p \in SUBSET (Live(nodes) \cap DynId) :
        \E a, b \in p : /\ p = {a, b} /\ a # b /\ Kind(nodes, a) = Kind(nodes, b)
                        /\ Twins(nodes[a], nodes[b].label, nodes[b].vec)}

MaybeDupPairs(nodes) ==
    {p \in SUBSET (Live(nodes) \cap DynId) :
        \E a, b \in p : /\ p = {a, b} /\ a # b /\ Kind(nodes, a) = Kind(nodes, b)
                        /\ Alike(nodes[a], nodes[b].vec)
                        /\ ~Twins(nodes[a], nodes[b].label, nodes[b].vec)}

------------------------------------------------------------------------------
(* apply_ontology: insert the concepts the learner lacks, refresh only the  *)
(* text of those it has, leave other curricula alone, and replace the edges *)
(* among the concepts of this one.                                          *)
SeedRows(nodes, text) ==
    [n \in NodeId |->
        IF n \notin DOMAIN text THEN nodes[n]
        ELSE IF nodes[n].status = "absent" THEN Fresh(text[n], 0)
        ELSE [nodes[n] EXCEPT !.label = text[n], !.vec = text[n]]]

SeedEdges(edges, cur) ==
    {e \in edges : ~(Pair(e) \subseteq DOMAIN cur.text)} \cup cur.edges
==============================================================================
