----------------------------- MODULE MCCurriculum -----------------------------
(* Four concepts and one node of the Keeper's.  Hosts submit broken         *)
(* curricula, cycles, a diamond, and pairs of valid ones that close a cycle *)
(* together.                                                                *)
EXTENDS Curriculum, TLC

CONSTANTS a, b, c, d, n1, blank

C(S) == [i \in 1..Len(S) |-> [id |-> S[i], text |-> "text"]]
E(s, t, k) == [source |-> s, target |-> t, type |-> k]
pre(s, t) == E(s, t, "prerequisite")
O(cs, es) == [concepts |-> C(cs), edges |-> es]

MCConceptId == {a, b, c, d}

MCOntologies ==
    {O(<<>>, <<>>), O(<<a, a>>, <<>>), O(<<a, blank>>, <<>>),
     [concepts |-> <<[id |-> a, text |-> blank]>>, edges |-> <<>>],
     O(<<a, b>>, <<pre(a, c)>>), O(<<a, b>>, <<pre(a, a)>>),
     O(<<a, b>>, <<pre(a, b), E(b, a, "part_of")>>),
     O(<<a, b, c>>, <<pre(a, b), pre(b, c), pre(c, a)>>),
     O(<<a, b, c>>, <<pre(a, b), pre(b, c), E(c, a, "part_of")>>),
     O(<<a, b, c>>, <<pre(a, b), pre(a, c), pre(b, c)>>),
     O(<<d, a, b, c>>, <<pre(d, a), pre(a, b), pre(b, c), pre(c, a)>>),
     O(<<a, c>>, <<pre(c, a)>>)}
===============================================================================
