---------------------------- MODULE MCKeeperHistory ----------------------------
(* One call after another on one graph, with two batches of events: what    *)
(* one consolidation created, the next one grows, fades, forgets or merges. *)
EXTENDS Keeper, TLC

CONSTANTS e1, e2, a, k1, c1, n1, n2, n3, o1, em, emf, opt

MCEvent   == {e1, e2}
MCLearner == {a}
MCKey     == {k1}
MCCall    == {c1}
MCOwnerOf == [e \in MCEvent |-> a]
MCKeyOf   == a :> k1

MCDynId  == {n1, n2, n3}
MCOntId  == {o1}
MCLabel  == {em, emf, opt}
MCKindOf == [x \in MCLabel |-> "concept"]
MCDetail == em :> 1 @@ emf :> 2 @@ opt :> 1
MCTwin   == {{em, emf}}
MCNear   == {{em, opt}}

MCCurriculum == {[text |-> o1 :> em, edges |-> {}]}

MCLegacy ==
    {[nodes |-> NoRows, edges |-> {}],
     [nodes |-> (n1 :> Fresh(em, 1) @@ n2 :> Fresh(emf, 1)) @@ NoRows, edges |-> {}]}

(* Guards do not read how a run ended.                                      *)
WithoutReports == <<queueVars, lock, pc, batch, tables, seedVars, plan>>

Symmetric == Permutations(MCEvent)
==============================================================================
