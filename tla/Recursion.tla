------------------------------- MODULE Recursion -------------------------------
(***************************************************************************)
(* Induction over data.  The sources fold a step over a list; the modules  *)
(* write such a fold as a function on 0..n whose value at k is computed    *)
(* from the one at k-1.  A property that fails of one number fails of a    *)
(* least one: from that follow an induction over sets of numbers, that     *)
(* such functions exist, and that there is only one.                       *)
(***************************************************************************)
EXTENDS Integers, FiniteSetTheorems, TLAPS

(* Every set of naturals that has an element has a least one.            *)
LEMMA Least ==
    ASSUME NEW B \in SUBSET Nat, B # {}
    PROVE  \E m \in B : \A k \in B : m <= k
<1> DEFINE I == {1..n : n \in B}
<1>1. I \subseteq FiniteSubsetsOf(Nat)
  <2>1. \A n \in B : IsFiniteSet(1..n) /\ 1..n \subseteq Nat
    BY FS_Interval
  <2> QED
    BY <2>1 DEF FiniteSubsetsOf
<1>2. I # {} /\ IsWellFoundedOn(StrictSubsetOrdering(Nat), FiniteSubsetsOf(Nat))
  BY FS_StrictSubsetOrderingWellFounded
<1>3. \A n \in B : 1..n \in I /\ 1..n \in SUBSET Nat
  OBVIOUS
<1>4. \A x \in I : \E n \in B : x = 1..n
  OBVIOUS
<1> HIDE DEF I
<1>5. PICK x \in I : \A y \in I : ~ (<<y, x>> \in StrictSubsetOrdering(Nat))
  BY <1>1, <1>2, WFMin
<1>6. PICK m \in B : x = 1..m
  BY <1>4
<1>7. ASSUME NEW k \in B, k < m
      PROVE  FALSE
  <2>1. 1..k \subseteq 1..m /\ 1..k # 1..m
    BY <1>7
  <2>2. <<1..k, 1..m>> \in StrictSubsetOrdering(Nat)
    BY <1>3, <2>1 DEF StrictSubsetOrdering
  <2> QED
    BY <1>3, <1>5, <1>6, <2>2
<1> QED
  BY <1>6, <1>7

(* Induction up to n, over the set of the numbers for which something holds.*)
LEMMA Induct ==
    ASSUME NEW n \in Nat, NEW G \in SUBSET (0..n), 0 \in G, \A i \in 1..n : i-1 \in G => i \in G
    PROVE  \A i \in 0..n : i \in G
<1> SUFFICES ASSUME (0..n) \ G # {}
             PROVE  FALSE
  OBVIOUS
<1>1. (0..n) \ G \in SUBSET Nat
  OBVIOUS
<1>2. PICK m \in (0..n) \ G : \A k \in (0..n) \ G : m <= k
  BY <1>1, Least
<1>3. m \in 1..n /\ m-1 \in 0..n /\ m-1 < m
  BY <1>2
<1> QED
  BY <1>2, <1>3

(* The functions whose values are each computed from the one before.        *)
Steps(n, S) == [S \X (1..n) -> S]

Runs(n, S, c, step) ==
    {f \in [0..n -> S] : f[0] = c /\ \A i \in 1..n : f[i] = step[<<f[i-1], i>>]}

(* There is one for every start and step.                                   *)
LEMMA RecursionExists ==
    ASSUME NEW n \in Nat, NEW S, NEW c \in S, NEW step \in Steps(n, S)
    PROVE  Runs(n, S, c, step) # {}
<1> DEFINE To(k) == {f \in [0..k -> S] : f[0] = c /\ \A i \in 1..k : f[i] = step[<<f[i-1], i>>]}
           G == {k \in 0..n : To(k) # {}}
<1>1. 0 \in G
  <2>1. [i \in 0..0 |-> c] \in To(0)
    OBVIOUS
  <2> QED
    BY <2>1
<1>2. ASSUME NEW k \in 1..n, k-1 \in G
      PROVE  k \in G
  <2>1. PICK f \in To(k-1) : TRUE
    BY <1>2
  <2>2. /\ f \in [0..(k-1) -> S] /\ f[0] = c
        /\ \A i \in 1..(k-1) : f[i] = step[<<f[i-1], i>>]
    BY <2>1
  <2> DEFINE v == step[<<f[k-1], k>>]
             g == [i \in 0..k |-> IF i = k THEN v ELSE f[i]]
  <2>3. v \in S /\ v = step[<<f[k-1], k>>]
    BY <2>2 DEF Steps
  <2> HIDE DEF v
  <2>4. g \in [0..k -> S] /\ g[k] = v /\ \A i \in 0..(k-1) : g[i] = f[i]
    BY <2>2, <2>3
  <2> HIDE DEF g
  <2>5. g[0] = c
    BY <2>2, <2>4
  <2>6. ASSUME NEW i \in 1..k
        PROVE  g[i] = step[<<g[i-1], i>>]
    <3>1. CASE i = k
      <4>1. k-1 \in 0..(k-1) /\ g[k-1] = f[k-1]
        BY <2>4
      <4> QED
        BY <2>3, <2>4, <3>1, <4>1
    <3>2. CASE i # k
      BY <2>2, <2>4, <3>2
    <3> QED
      BY <3>1, <3>2
  <2>7. g \in To(k)
    BY <2>4, <2>5, <2>6
  <2> QED
    BY <2>7
<1>3. n \in G
  <2>1. G \in SUBSET (0..n)
    OBVIOUS
  <2> HIDE DEF G
  <2> QED
    BY <1>1, <1>2, <2>1, Induct
<1>4. To(n) # {}
  BY <1>3
<1>5. Runs(n, S, c, step) = To(n)
  BY DEF Runs
<1> QED
  BY <1>4, <1>5

------------------------------------------------------------------------------
(* Two functions start alike, and where they agree go on alike.             *)
InStep(n, f, g) == f[0] = g[0] /\ \A k \in 1..n : f[k-1] = g[k-1] => f[k] = g[k]

(* Then they agree throughout.                                              *)
LEMMA Agree ==
    ASSUME NEW n \in Nat, NEW f, NEW g, InStep(n, f, g)
    PROVE  \A k \in 0..n : f[k] = g[k]
<1> DEFINE G == {k \in 0..n : f[k] = g[k]}
<1>1. 0 \in G /\ G \in SUBSET (0..n)
  BY DEF InStep
<1>2. \A k \in 1..n : k-1 \in G => k \in G
  BY DEF InStep
<1> HIDE DEF G
<1>3. \A k \in 0..n : k \in G
  BY <1>1, <1>2, Induct
<1> QED
  BY <1>3 DEF G
================================================================================
