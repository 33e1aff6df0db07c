--------------------------- MODULE MCConsolidation ---------------------------
(* Two calls serve three learners.  a and b hash to the same advisory key.  *)
EXTENDS Consolidation, TLC

CONSTANTS e1, e2, e3, a, b, d, k1, k2, c1, c2

MCEvent   == {e1, e2, e3}
MCLearner == {a, b, d}
MCKey     == {k1, k2}
MCCall    == {c1, c2}
MCOwnerOf == e1 :> a @@ e2 :> a @@ e3 :> d
MCKeyOf   == a :> k1 @@ b :> k1 @@ d :> k2
==============================================================================
