----------------------------- MODULE MCExtraction -----------------------------
(* A learner with no concept, with two that share a normal form, or with a  *)
(* curriculum of two and a concept of its own.                              *)
EXTENDS Extraction, TLC

CONSTANTS n1, n2, n3, em, emAbbr, opt, dashes

MCForm == {em, emAbbr, opt, dashes}

\* "EM induction" and "em  Induction!" are the same once normalized
MCNormOf == em :> "em" @@ emAbbr :> "em" @@ opt :> "opt" @@ dashes :> NoLetters

None == [n \in Node |-> Null]

MCGraphs ==
    {None, n1 :> em @@ None, n1 :> em @@ n2 :> emAbbr @@ None,
     n1 :> opt @@ n3 :> em @@ None}

MCNumber == {-500, 500, 2000}
===============================================================================
