------------------------------ MODULE Curriculum ------------------------------
(***************************************************************************)
(* Curricula in one learner's graph and the walk that reads them back.     *)
(* seed_ontology validates, embeds and writes a curriculum; two valid      *)
(* curricula that share concepts, and the relations the Keeper adds, may   *)
(* together hold a cycle no single one has.  Insights.blockers walks that  *)
(* graph backwards over prerequisites, from nodes and edges it has read    *)
(* one after the other while seeds and consolidations go on committing.    *)
(***************************************************************************)
EXTENDS Ontology, FiniteSets, SequencesExt

CONSTANTS DynNode,   \* nodes the Keeper inserted: never external
          MaxWrites  \* bound: commits of the run

Node == ConceptId \cup DynNode

ASSUME NodesFinite == IsFiniteSet(Node)

(* mastery: None (never assessed), below _WEAK_MASTERY, or not.             *)
Mastery == {"none", "weak", "firm"}

VARIABLES row,       \* node -> status and mastery
          edges,     \* engram_edges
          writes,    \* commits so far
          ask        \* the blockers request under way

cvars == <<ovars, row, edges, writes, ask>>

graphVars == <<row, edges, writes>>

NoRow == [status |-> "absent", mastery |-> "none"]

EdgeRow == [source: Node, target: Node, type: EdgeKind]

Ends(e) == {e.source, e.target}

Live(rows) == {n \in Node : rows[n].status = "live"}

Request ==
    [step |-> "idle", asked |-> {}, targets |-> {}, live |-> {},
     mastery |-> [n \in Node |-> "none"], edges |-> {}, seen |-> {}, frontier |-> <<>>,
     out |-> {}]

(* validate and the walk run without an await: nothing happens meanwhile.   *)
Quiet == /\ stage \in {"idle", "accepted", "rejected"}
         /\ ask.step \in {"idle", "live"}

CInit ==
    /\ OInit
    /\ row \in [Node -> {NoRow}]
    /\ edges = {} /\ writes = 0
    /\ ask = Request

(* build_seed_nodes: a fact of the curriculum, never assessed.              *)
NewConcept == [status |-> "live", mastery |-> "none"]

(* build_seed_edges: still between external ids, which are node ids here.   *)
SeedEdges(o) == At(o.edges)

(* embed, then apply_ontology in one transaction: a concept the learner     *)
(* holds keeps status and mastery; the edges inside this curriculum are     *)
(* replaced, all others stay.                                               *)
Apply ==
    /\ Quiet /\ stage = "accepted" /\ writes < MaxWrites
    /\ LET mine == Listed(onto)
       IN  /\ row' = [n \in Node |-> IF n \in mine /\ row[n].status = "absent"
                                     THEN NewConcept ELSE row[n]]
           /\ edges' = {e \in edges : ~ Ends(e) \subseteq mine} \cup SeedEdges(onto)
    /\ writes' = writes + 1
    /\ Return /\ UNCHANGED ask

(* The curriculum was refused, or the embedder raises after validation:     *)
(* nothing is written.                                                      *)
SeedFails == Quiet /\ Return /\ UNCHANGED <<graphVars, ask>>

(* A consolidation assesses a node or inserts one, ...                      *)
Assess ==
    /\ Quiet /\ writes < MaxWrites /\ writes' = writes + 1
    /\ \E n \in Live(row) \cup DynNode, m \in Mastery \ {"none"} :
        /\ row[n].status # "forgotten"
        /\ row' = [row EXCEPT ![n] = [status |-> "live", mastery |-> m]]
    /\ UNCHANGED <<ovars, edges, ask>>

(* ... relates two, one edge per pair, ...                                  *)
Relate ==
    /\ Quiet /\ writes < MaxWrites /\ writes' = writes + 1
    /\ \E e \in EdgeRow :
        /\ Ends(e) \subseteq Live(row) /\ e.source # e.target
        /\ \A f \in edges : Ends(f) # Ends(e)
        /\ edges' = edges \cup {e}
    /\ UNCHANGED <<ovars, row, ask>>

(* ... or lets one of its own fade out; its edges stay.                     *)
Forget ==
    /\ Quiet /\ writes < MaxWrites /\ writes' = writes + 1
    /\ \E n \in DynNode \cap Live(row) : row' = [row EXCEPT ![n].status = "forgotten"]
    /\ UNCHANGED <<ovars, edges, ask>>

------------------------------------------------------------------------------
(* Insights.blockers: the live nodes first; the goals are the three most    *)
(* important ones, any up to three here.                                    *)
AskLive ==
    /\ Quiet /\ ask.step = "idle"
    /\ \E T \in SUBSET Live(row) :
        /\ T # {} /\ Cardinality(T) <= 3
        /\ ask' = [Request EXCEPT
                        !.step = "live", !.targets = T, !.asked = T, !.live = Live(row),
                        !.mastery = [n \in Node |-> row[n].mastery]]
    /\ UNCHANGED <<ovars, graphVars>>

(* get_edges: the edges with an end among the nodes just read.              *)
AskEdges ==
    /\ Quiet /\ ask.step = "live"
    /\ ask' = [ask EXCEPT !.step = "targets",
                          !.edges = {e \in edges : Ends(e) \cap ask.live # {}}]
    /\ UNCHANGED <<ovars, graphVars>>

Prerequisites(n) ==
    {e.source : e \in {f \in ask.edges : f.type = "prerequisite" /\ f.target = n}}

NextTarget ==
    /\ ask.step = "targets"
    /\ IF ask.targets = {}
       THEN ask' = [ask EXCEPT !.step = "done"]
       ELSE \E t \in ask.targets :
              ask' = [ask EXCEPT !.step = "walk", !.targets = @ \ {t}, !.seen = {t},
                                 !.frontier = <<<<t>>>>]
    /\ UNCHANGED <<ovars, graphVars>>

(* What the end of a path adds to the report: a weak concept that no other  *)
(* path has led to.                                                         *)
Reported(paths) ==
    {p \in paths : /\ ask.mastery[Last(p)] = "weak"
                   /\ \A r \in ask.out : Last(r) # Last(p)}

Unseen(n) == {p \in Prerequisites(n) \cap ask.live : p \notin ask.seen}

\* Slip: the walk goes on only through weak concepts.
Visit_WeakOnly ==
    /\ ask.step = "walk" /\ ask.frontier # <<>>
    /\ LET path == Last(ask.frontier)
           new  == {p \in Unseen(Last(path)) : ask.mastery[p] = "weak"}
       IN  \E order \in SetToSeqs(new) :
             ask' = [ask EXCEPT !.seen = @ \cup new,
                        !.frontier = Front(@) \o [i \in DOMAIN order |-> Append(path, order[i])],
                        !.out = @ \cup Reported({Append(path, p) : p \in new})]
    /\ UNCHANGED <<ovars, graphVars>>

(* One turn of the while loop: pop a path, put the unseen live              *)
(* prerequisites of its end on the frontier, and report the weak ones with  *)
(* the path that led to them, unless another goal already did.              *)
Visit ==
    /\ ask.step = "walk" /\ ask.frontier # <<>>
    /\ LET path == Last(ask.frontier)
           new  == Unseen(Last(path))
       IN  \E order \in SetToSeqs(new) :
             ask' = [ask EXCEPT !.seen = @ \cup new,
                        !.frontier = Front(@) \o [i \in DOMAIN order |-> Append(path, order[i])],
                        !.out = @ \cup Reported({Append(path, p) : p \in new})]
    /\ UNCHANGED <<ovars, graphVars>>

WalkOver ==
    /\ ask.step = "walk" /\ ask.frontier = <<>>
    /\ ask' = [ask EXCEPT !.step = "targets"]
    /\ UNCHANGED <<ovars, graphVars>>

Answer == ask.step = "done" /\ ask' = Request /\ UNCHANGED <<ovars, graphVars>>

Walk == AskEdges \/ NextTarget \/ Visit \/ WalkOver \/ Answer

Validate == ask.step \in {"idle", "live"} /\ Validating /\ UNCHANGED <<graphVars, ask>>

CNext == Validate \/ Apply \/ SeedFails \/ Assess \/ Relate \/ Forget \/ AskLive \/ Walk

CSpec == CInit /\ [][CNext]_cvars

------------------------------------------------------------------------------
(* The live concepts from which a chain of prerequisites leads to t: they   *)
(* are in every set that has t and the live prerequisites of its members.   *)
Closed(C) == \A n \in C : Prerequisites(n) \cap ask.live \subseteq C

Reaches(t) ==
    {n \in Node \ {t} : \A C \in SUBSET Node : t \in C /\ Closed(C) => n \in C}

(* What "blocks" the goals is every weak concept behind them and nothing    *)
(* else, also through firm ones and around cycles, each once and with a     *)
(* path of real prerequisites without a repetition (review.blockers).       *)
BlockersExact ==
    ask.step = "done" =>
        /\ {Last(r) : r \in ask.out} =
             {n \in UNION {Reaches(t) : t \in ask.asked} : ask.mastery[n] = "weak"}
        /\ \A q, r \in ask.out : Last(q) = Last(r) => q = r
        /\ \A r \in ask.out :
             /\ r[1] \in ask.asked /\ IsInjective(r)
             /\ \A i \in 1..Len(r)-1 : r[i+1] \in Prerequisites(r[i])
===============================================================================
