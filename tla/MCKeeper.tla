------------------------------- MODULE MCKeeper -------------------------------
(* One learner with an empty graph, or with one an older version left: two  *)
(* nodes for the same concept, each linked to a third and to each other; or *)
(* two that were relabelled, and a third of which the reflector may hold    *)
(* each to be the same or not, so that a merge gives it the label of a node *)
(* it was kept apart from.                                                  *)
EXTENDS Keeper, TLC

CONSTANTS e1, a, k1, c1, c2, n1, n2, n3, o1, o2, em, emf, opt, aim

MCEvent   == {e1}
MCLearner == {a}
MCKey     == {k1}
MCCall    == {c1, c2}
MCOwnerOf == [e \in MCEvent |-> a]
MCKeyOf   == a :> k1

MCDynId  == {n1, n2, n3}
MCOntId  == {o1, o2}
MCLabel  == {em, emf, opt, aim}
MCKindOf == [x \in MCLabel |-> IF x = aim THEN "goal" ELSE "concept"]
MCDetail == em :> 1 @@ emf :> 2 @@ opt :> 1 @@ aim :> 1
MCTwin   == {{em, emf}}
MCNear   == {{em, opt}, {emf, aim}}

Link_(s, t, d) == [src |-> s, dst |-> d, type |-> t]

\* an edited curriculum: other text, the prerequisite the other way round
MCCurriculum ==
    {[text |-> o1 :> em @@ o2 :> emf, edges |-> {Link_(o1, "prerequisite", o2)}],
     [text |-> o1 :> opt @@ o2 :> emf, edges |-> {Link_(o2, "prerequisite", o1)}]}

Row(x) == Fresh(x, 1)
\* A node that was relabelled keeps its vector.
Spelled == [Row(em) EXCEPT !.label = emf]
MCLegacy ==
    {[nodes |-> NoRows, edges |-> {}],
     [nodes |-> (n1 :> Row(em) @@ n2 :> Row(emf) @@ n3 :> Row(opt)) @@ NoRows,
      edges |-> {Link_(n1, "prerequisite", n3), Link_(n3, "relates_to", n2),
                 Link_(n1, "relates_to", n2)}],
     [nodes |-> (n1 :> Row(opt) @@ n2 :> Spelled @@ n3 :> Spelled) @@ NoRows, edges |-> {}]}

(* Reconcile says what the loop over the relations leaves.                  *)
ASSUME LoopReconciles ==
    LET Known == {{}} \cup {{e} : e \in {x \in [src: {n1, n2}, dst: {n1, n2}, type: EdgeType] : x.src # x.dst}}
    IN  \A K \in Known, r, s, t \in [src: {n1, n2}, dst: {n1, n2, n3}, type: EdgeType] :
            Reconcile(K, <<r, s, t>>) = ReconcileLoop(K, <<r, s, t>>)

(* How a run ended matters to the invariants only while a sweep leaves the  *)
(* lock's block: no guard reads it.                                         *)
Swept(c) == pc[c] = "releasing" /\ report[c] = "swept"
WithoutReports ==
    <<queueVars, lock, pc, batch, [c \in Call |-> Swept(c)], tables, seedVars, plan>>

Symmetric == Permutations(MCCall)
==============================================================================
