----------------------------- MODULE ReadersProofs -----------------------------
(***************************************************************************)
(* Proofs about the readers of one learner: what a request answers, how    *)
(* long its text is, and what the audit feed sends, for any graph, walk,   *)
(* budget and page, whatever consolidations and repairs commit meanwhile.  *)
(* Folds of the code (the edges of a hop, the blocks of a text, the rows   *)
(* of a page) are recursive functions, and what they compute is shown by   *)
(* the induction of module Recursion.                                      *)
(***************************************************************************)
EXTENDS Readers, Recursion

(* An edge joins two different nodes.                                       *)
Pair(l) == \E m, n \in Node : m # n /\ l = {m, n}

Answer == [nodes : SUBSET Node, links : SUBSET SUBSET Node, lines : Nat, chars : Nat, notes : Nat]

(* What a request has done.                                                 *)
Reads == [kind : {"recall", "graph", "focus"},
          step : {"idle", "seed", "hop", "nodes", "finish", "done"}, budget : Nat,
          found : SUBSET Node, frontier : SUBSET Node, fetch : SUBSET Node,
          hop : 0..Hops, edges : SUBSET SUBSET Node, notes : Nat, answer : Answer]

ReadTypeOK ==
    /\ \A l \in links : Pair(l)
    /\ events \in Seq([type : EventType, pending : BOOLEAN])
    /\ read \in Reads /\ quiet \in BOOLEAN

(* What a request has read was there at some time since it began.           *)
NothingStale ==
    read.step # "idle" =>
        /\ Live \subseteq lived /\ links \subseteq linked
        /\ read.found \subseteq lived /\ read.edges \subseteq linked
        /\ read.frontier \subseteq read.found

(* The nodes next to some nodes.                                            *)
Near(T, edges) == UNION {l \in edges : l \cap T # {}}

(* No node met so far has more links than the fan-out.                      *)
Roomy(r, edges) ==
    r.kind = "focus" \/ \A n \in r.found : Cardinality({l \in edges : n \in l}) <= Fanout

(* Behind the frontier everything live is found.                            *)
Settled(r, edges, live) == Near(r.found \ r.frontier, edges) \cap live \subseteq r.found

(* The walk from S is as far as it says.                                    *)
Walked(S, r, edges, live) ==
    LET ball == Balls(S, edges, live) IN
    /\ S \in SUBSET live /\ S \subseteq r.found
    /\ r.step = "hop" =>
         /\ r.found \subseteq ball[r.hop]
         /\ Roomy(r, edges) => r.found = ball[r.hop] /\ Settled(r, edges, live)
    /\ r.step = "nodes" =>
         /\ r.hop > 0 /\ r.found \subseteq ball[r.hop - 1]
         /\ r.fetch \subseteq Near(r.frontier, edges)
         /\ Roomy(r, edges) =>
              /\ r.found = ball[r.hop - 1] /\ Settled(r, edges, live)
              /\ Near(r.frontier, edges) \subseteq r.found \cup r.fetch
    /\ r.step \in {"finish", "done"} =>
         /\ r.found \subseteq ball[Hops]
         /\ Roomy(r, edges) => r.found = ball[Hops]

OnTheWay ==
    /\ read.step = "seed" => read.hop = 0
    /\ quiet /\ read.kind \in {"recall", "focus"} /\ read.step \in {"hop", "nodes", "finish", "done"}
         => \E S \in Seeds : Walked(S, read, links, Live)

(* What an answer is made of.                                               *)
AnswerSound ==
    read.step = "done" =>
        LET a == read.answer IN
        /\ a.nodes \subseteq read.found /\ a.links \subseteq linked /\ UNION a.links \subseteq a.nodes
        /\ quiet /\ read.kind # "recall" => a.links = {l \in links : l \subseteq a.nodes}

RecallInv == ReadTypeOK /\ NothingStale /\ OnTheWay /\ AnswerSound /\ BudgetKept

(* At most one call holds the lock; the transaction it has open is the      *)
(* latest, and none of its rows are visible yet.                            *)
LatestOpen ==
    /\ audit \in Seq(Nat) /\ now = Len(audit)
    /\ call \in [Call -> [step : {"out", "locked", "writing"}, batch : SUBSET Nat, ts : Nat]]
    /\ \A c, d \in Call : call[c].step # "out" /\ call[d].step # "out" => c = d
    /\ \A c \in Call : call[c].step = "writing" =>
         call[c].ts = now /\ now \in DOMAIN audit /\ audit[now] = 0

Times(s, ts) == Cardinality({i \in DOMAIN s : s[i] = ts})

(* The cursor is the last row sent, and visible; no row is behind it but    *)
(* what a full page cut off.                                                *)
FeedInOrder ==
    /\ sent \in Seq(Nat) /\ cursor \in 0..now
    /\ cursor > 0 => audit[cursor] > 0
    /\ \A i \in DOMAIN sent : sent[i] \in 1..cursor
    /\ \A i \in 1..Len(sent)-1 : sent[i] <= sent[i+1]
    /\ \A ts \in DOMAIN audit :
         /\ Times(sent, ts) <= audit[ts]
         /\ ts <= cursor /\ Times(sent, ts) < audit[ts] => ts \in cuts

ReadersInv == RecallInv /\ LatestOpen /\ FeedInOrder

------------------------------------------------------------------------------
(* Sequences can be joined one by one.                                      *)
LEMMA JoinsExist ==
    ASSUME NEW n \in Nat, NEW S, NEW h \in [1..n -> Seq(S)]
    PROVE  \E f \in [0..n -> Seq(S)] :
             f[0] = <<>> /\ \A k \in 1..n : f[k] = f[k-1] \o h[k]
<1> DEFINE T == Seq(S)
           step == [p \in T \X (1..n) |-> p[1] \o h[p[2]]]
<1>1. \A s \in T, k \in 1..n : s \o h[k] \in T
  OBVIOUS
<1>2. \A s \in T, k \in 1..n : step[<<s, k>>] = s \o h[k]
  OBVIOUS
<1>3. step \in [T \X (1..n) -> T]
  <2>1. \A p \in T \X (1..n) : p[1] \in T /\ p[2] \in 1..n
    OBVIOUS
  <2> HIDE DEF T
  <2>2. \A p \in T \X (1..n) : p[1] \o h[p[2]] \in T
    BY <1>1, <2>1
  <2> QED
    BY <2>2
<1>4. <<>> \in T
  OBVIOUS
<1> HIDE DEF T, step
<1>5. PICK f \in [0..n -> T] : f[0] = <<>> /\ \A k \in 1..n : f[k] = step[<<f[k-1], k>>]
  <2>1. step \in Steps(n, T)
    BY <1>3 DEF Steps
  <2>2. Runs(n, T, <<>>, step) # {}
    BY <1>4, <2>1, RecursionExists
  <2> QED
    BY <2>2 DEF Runs
<1>6. ASSUME NEW k \in 1..n
      PROVE  f[k] = f[k-1] \o h[k]
  <2>1. k-1 \in 0..n
    OBVIOUS
  <2>2. f[k-1] \in T
    BY <2>1
  <2> QED
    BY <1>2, <1>5, <2>2
<1> QED
  BY <1>5, <1>6 DEF T

(* One sequence after another.                                              *)
LEMMA Joined ==
    ASSUME NEW S, NEW a \in Seq(S), NEW b \in Seq(S)
    PROVE  /\ a \o b \in Seq(S) /\ Len(a \o b) = Len(a) + Len(b)
           /\ Len(a) \in Nat /\ Len(b) \in Nat
           /\ DOMAIN a = 1..Len(a) /\ DOMAIN b = 1..Len(b)
           /\ DOMAIN (a \o b) = 1..(Len(a) + Len(b))
           /\ \A i \in 1..Len(a) : (a \o b)[i] = a[i]
           /\ \A i \in 1..Len(b) : (a \o b)[Len(a) + i] = b[i]
  OBVIOUS

(* How often a timestamp occurs in a sequence is a number.                  *)
LEMMA TimesType ==
    ASSUME NEW s \in Seq(Nat), NEW ts
    PROVE  /\ Times(s, ts) \in Nat /\ IsFiniteSet({i \in DOMAIN s : s[i] = ts})
           /\ (\A i \in DOMAIN s : s[i] # ts) => Times(s, ts) = 0
<1>1. IsFiniteSet(1..Len(s)) /\ {i \in DOMAIN s : s[i] = ts} \in SUBSET (1..Len(s))
  BY FS_Interval
<1>2. IsFiniteSet({i \in DOMAIN s : s[i] = ts})
  BY <1>1, FS_Subset
<1> QED
  BY <1>2, FS_CardinalityType, FS_EmptySet DEF Times

(* What two sequences have of a timestamp adds up.                          *)
LEMMA TimesJoined ==
    ASSUME NEW a \in Seq(Nat), NEW b \in Seq(Nat), NEW ts
    PROVE  Times(a \o b, ts) = Times(a, ts) + Times(b, ts)
<1> DEFINE A == {i \in DOMAIN a : a[i] = ts}
           B == {i \in DOMAIN b : b[i] = ts}
           C == {i \in DOMAIN (a \o b) : (a \o b)[i] = ts}
           M == {Len(a) + i : i \in B}
           shift == [i \in B |-> Len(a) + i]
<1>1. /\ Len(a) \in Nat /\ Len(b) \in Nat
      /\ DOMAIN a = 1..Len(a) /\ DOMAIN b = 1..Len(b)
      /\ DOMAIN (a \o b) = 1..(Len(a) + Len(b))
      /\ \A i \in 1..Len(a) : (a \o b)[i] = a[i]
      /\ \A i \in 1..Len(b) : (a \o b)[Len(a) + i] = b[i]
  BY Joined
<1>2. IsFiniteSet(A) /\ IsFiniteSet(B) /\ Cardinality(A) \in Nat /\ Cardinality(B) \in Nat
  BY TimesType, FS_CardinalityType
<1>3. shift \in Bijection(B, M)
  BY <1>1 DEF Bijection, Injection, Surjection, IsInjective
<1>4. IsFiniteSet(M) /\ Cardinality(M) = Cardinality(B)
  BY <1>2, <1>3, FS_Bijection DEF ExistsBijection
<1>5. A \cap M = {}
  BY <1>1
<1>6. C = A \cup M
  <2>1. ASSUME NEW i \in C
        PROVE  i \in A \cup M
    <3>1. CASE i \in 1..Len(a)
      BY <1>1, <3>1
    <3>2. CASE i \notin 1..Len(a)
      <4>1. i - Len(a) \in 1..Len(b) /\ i = Len(a) + (i - Len(a))
        BY <1>1, <3>2
      <4> QED
        BY <1>1, <4>1
    <3> QED
      BY <3>1, <3>2
  <2>2. A \subseteq C /\ M \subseteq C
    BY <1>1
  <2> QED
    BY <2>1, <2>2
<1>7. Cardinality(A \cup M) = Cardinality(A) + Cardinality(M)
  <2> HIDE DEF A, B, M
  <2>1. Cardinality(A \cup M) = Cardinality(A) + Cardinality(M) - Cardinality(A \cap M)
    BY <1>2, <1>4, FS_Union
  <2>2. Cardinality(A \cap M) = 0
    BY <1>5, FS_EmptySet
  <2>3. Cardinality(A) \in Nat /\ Cardinality(M) \in Nat
    BY <1>2, <1>4
  <2> QED
    BY <2>1, <2>2, <2>3
<1> QED
  BY <1>4, <1>6, <1>7 DEF Times

(* The rows of one transaction.                                             *)
Same(ts, n) == [i \in 1..n |-> ts]

(* They are rows of that transaction and of no other.                       *)
LEMMA TimesSame ==
    ASSUME NEW n \in Nat, NEW t \in Nat, NEW ts
    PROVE  /\ Same(t, n) \in Seq(Nat) /\ Len(Same(t, n)) = n
           /\ \A i \in 1..n : Same(t, n)[i] = t
           /\ Times(Same(t, n), ts) = IF ts = t THEN n ELSE 0
<1>1. /\ Same(t, n) \in Seq(Nat) /\ Len(Same(t, n)) = n /\ DOMAIN Same(t, n) = 1..n
      /\ \A i \in 1..n : Same(t, n)[i] = t
  BY DEF Same
<1>2. CASE ts = t
  <2>1. {i \in DOMAIN Same(t, n) : Same(t, n)[i] = ts} = 1..n
    BY <1>1, <1>2
  <2>2. Cardinality(1..n) = n
    <3>1. Cardinality(1..n) = IF 1 > n THEN 0 ELSE n - 1 + 1
      BY FS_Interval
    <3> QED
      BY <3>1
  <2> QED
    BY <1>1, <1>2, <2>1, <2>2 DEF Times
<1>3. CASE ts # t
  BY <1>1, <1>3, TimesType
<1> QED
  BY <1>1, <1>2, <1>3

(* The rows newer than the cursor, transaction by transaction.              *)
LEMMA NewerUnfolds ==
    ASSUME audit \in Seq(Nat), cursor \in 0..Len(audit)
    PROVE  \E f \in [0..(Len(audit) - cursor) -> Seq(Nat)] :
             /\ f[0] = <<>> /\ Newer = f[Len(audit) - cursor]
             /\ \A k \in 1..(Len(audit) - cursor) :
                  f[k] = f[k-1] \o Same(cursor + k, audit[cursor + k])
<1> DEFINE n == Len(audit) - cursor
           h == [k \in 1..n |-> Same(cursor + k, audit[cursor + k])]
           g == CHOOSE f : f = [k \in 0..n |->
                  IF k = 0 THEN <<>>
                  ELSE f[k-1] \o [i \in 1..audit[cursor + k] |-> cursor + k]]
<1>1. Newer = g[n]
  BY DEF Newer
<1>2. /\ n \in Nat
      /\ \A k \in 1..n : cursor + k \in Nat /\ audit[cursor + k] \in Nat
  OBVIOUS
<1> HIDE DEF n, g
<1>3. h \in [1..n -> Seq(Nat)]
  <2>1. ASSUME NEW k \in 1..n
        PROVE  Same(cursor + k, audit[cursor + k]) \in Seq(Nat)
    BY <1>2, TimesSame
  <2> QED
    BY <2>1
<1>4. \A k \in 1..n : h[k] = [i \in 1..audit[cursor + k] |-> cursor + k]
  BY DEF Same
<1>5. \A k \in 1..n : h[k] = Same(cursor + k, audit[cursor + k])
  OBVIOUS
<1> HIDE DEF h
<1>6. PICK f \in [0..n -> Seq(Nat)] : f[0] = <<>> /\ \A k \in 1..n : f[k] = f[k-1] \o h[k]
  BY <1>2, <1>3, JoinsExist, ZenonT(60)
<1>7. \A k \in 0..n : f[k] = IF k = 0 THEN <<>>
                             ELSE f[k-1] \o [i \in 1..audit[cursor + k] |-> cursor + k]
  <2>1. \A k \in 0..n : k = 0 \/ k \in 1..n
    BY <1>2
  <2> QED
    BY <1>4, <1>6, <2>1
<1>8. f = [k \in 0..n |->
             IF k = 0 THEN <<>>
             ELSE f[k-1] \o [i \in 1..audit[cursor + k] |-> cursor + k]]
  BY <1>6, <1>7
<1>9. g = [k \in 0..n |->
             IF k = 0 THEN <<>>
             ELSE g[k-1] \o [i \in 1..audit[cursor + k] |-> cursor + k]]
  BY <1>8, Zenon DEF g
<1>10. g[0] = <<>> /\ \A k \in 1..n : g[k] = g[k-1] \o h[k]
  <2>1. \A k \in 0..n : g[k] = IF k = 0 THEN <<>>
                               ELSE g[k-1] \o [i \in 1..audit[cursor + k] |-> cursor + k]
    BY <1>9
  <2>2. 0 \in 0..n /\ \A k \in 1..n : k \in 0..n /\ k # 0
    BY <1>2
  <2> QED
    BY <1>4, <2>1, <2>2, ZenonT(60)
<1>11. \A k \in 0..n : g[k] = f[k]
  <2>1. InStep(n, g, f)
    BY <1>6, <1>10 DEF InStep
  <2> QED
    BY <1>2, <2>1, Agree
<1>12. Newer = f[n]
  BY <1>1, <1>2, <1>11
<1> QED
  BY <1>5, <1>6, <1>12 DEF n
(* The rows of the transactions after lo and up to hi, in their order.      *)
Rows(s, a, lo, hi) ==
    /\ s \in Seq(Nat)
    /\ \A i \in 1..Len(s) : s[i] \in (lo+1)..hi /\ a[s[i]] > 0
    /\ \A i, j \in 1..Len(s) : i <= j => s[i] <= s[j]
    /\ \A ts \in Nat : Times(s, ts) = IF ts \in (lo+1)..hi THEN a[ts] ELSE 0

(* One more transaction.                                                    *)
LEMMA RowsGrow ==
    ASSUME NEW a, NEW lo \in Nat, NEW hi \in Nat, lo <= hi, a[hi+1] \in Nat,
           NEW s, Rows(s, a, lo, hi)
    PROVE  Rows(s \o Same(hi+1, a[hi+1]), a, lo, hi+1)
<1> DEFINE b == Same(hi+1, a[hi+1])
<1>1. /\ b \in Seq(Nat) /\ Len(b) = a[hi+1] /\ \A i \in 1..a[hi+1] : b[i] = hi+1
      /\ \A ts \in Nat : Times(b, ts) = IF ts = hi+1 THEN a[hi+1] ELSE 0
  <2> DEFINE t == hi+1
             v == a[t]
  <2>1. t \in Nat /\ v \in Nat
    OBVIOUS
  <2> HIDE DEF t, v
  <2>2. /\ Same(t, v) \in Seq(Nat) /\ Len(Same(t, v)) = v /\ \A i \in 1..v : Same(t, v)[i] = t
        /\ \A ts \in Nat : Times(Same(t, v), ts) = IF ts = t THEN v ELSE 0
    BY <2>1, TimesSame
  <2> QED
    BY <2>2 DEF t, v
<1> HIDE DEF b
<1>2. /\ s \in Seq(Nat) /\ Len(s) \in Nat
      /\ \A i \in 1..Len(s) : s[i] \in (lo+1)..hi /\ a[s[i]] > 0
      /\ \A i, j \in 1..Len(s) : i <= j => s[i] <= s[j]
  BY DEF Rows
<1>3. /\ s \o b \in Seq(Nat) /\ Len(s \o b) = Len(s) + Len(b) /\ Len(b) \in Nat
      /\ \A i \in 1..Len(s) : (s \o b)[i] = s[i]
      /\ \A i \in 1..Len(b) : (s \o b)[Len(s) + i] = b[i]
  <2>1. s \in Seq(Nat) /\ b \in Seq(Nat)
    BY <1>1, <1>2
  <2> QED
    BY <2>1, Joined
<1>4. ASSUME NEW i \in 1..Len(s \o b), i \notin 1..Len(s)
      PROVE  (s \o b)[i] = hi+1 /\ a[hi+1] > 0
  <2>1. i - Len(s) \in 1..Len(b) /\ i = Len(s) + (i - Len(s))
    BY <1>2, <1>3, <1>4
  <2>2. (s \o b)[i] = b[i - Len(s)]
    BY <1>3, <2>1
  <2> QED
    BY <1>1, <2>1, <2>2
<1>5. ASSUME NEW i \in 1..Len(s \o b)
      PROVE  (s \o b)[i] \in (lo+1)..(hi+1) /\ a[(s \o b)[i]] > 0
  <2>1. CASE i \in 1..Len(s)
    BY <1>2, <1>3, <2>1
  <2>2. CASE i \notin 1..Len(s)
    BY <1>4, <2>2
  <2> QED
    BY <2>1, <2>2
<1>6. ASSUME NEW i \in 1..Len(s \o b), NEW j \in 1..Len(s \o b), i <= j
      PROVE  (s \o b)[i] <= (s \o b)[j]
  <2>1. CASE j \in 1..Len(s)
    <3>1. i \in 1..Len(s)
      BY <1>2, <1>6, <2>1
    <3> QED
      BY <1>2, <1>3, <1>6, <2>1, <3>1
  <2>2. CASE j \notin 1..Len(s)
    <3>1. (s \o b)[j] = hi+1
      BY <1>4, <2>2
    <3>2. (s \o b)[i] \in (lo+1)..(hi+1)
      BY <1>5
    <3> QED
      BY <3>1, <3>2
  <2> QED
    BY <2>1, <2>2
<1>7. ASSUME NEW ts \in Nat
      PROVE  Times(s \o b, ts) = IF ts \in (lo+1)..(hi+1) THEN a[ts] ELSE 0
  <2>1. Times(s \o b, ts) = Times(s, ts) + Times(b, ts)
    BY <1>1, <1>2, TimesJoined
  <2>2. Times(s, ts) = IF ts \in (lo+1)..hi THEN a[ts] ELSE 0
    BY DEF Rows
  <2>3. Times(b, ts) = IF ts = hi+1 THEN a[hi+1] ELSE 0
    BY <1>1
  <2>4. Times(s, ts) \in Nat
    BY <1>2, TimesType
  <2> QED
    BY <2>1, <2>2, <2>3, <2>4
<1> QED
  BY <1>3, <1>5, <1>6, <1>7 DEF Rows, b

(* What get_audit returns is all of that behind the cursor.                 *)
LEMMA NewerIsRows ==
    ASSUME audit \in Seq(Nat), cursor \in 0..Len(audit)
    PROVE  Rows(Newer, audit, cursor, Len(audit))
<1> DEFINE n == Len(audit) - cursor
<1>1. PICK f \in [0..n -> Seq(Nat)] :
             /\ f[0] = <<>> /\ Newer = f[n]
             /\ \A k \in 1..n : f[k] = f[k-1] \o Same(cursor + k, audit[cursor + k])
  BY NewerUnfolds
<1>2. /\ n \in Nat /\ cursor \in Nat /\ cursor + n = Len(audit)
      /\ \A k \in 1..n : audit[cursor + k] \in Nat
  OBVIOUS
<1> HIDE DEF n
<1> DEFINE G == {k \in 0..n : Rows(f[k], audit, cursor, cursor + k)}
<1>3. 0 \in G
  <2>1. \A ts \in Nat : Times(<<>>, ts) = 0
    <3>1. <<>> \in Seq(Nat) /\ DOMAIN <<>> = {}
      OBVIOUS
    <3> QED
      BY <3>1, TimesType
  <2>2. Rows(<<>>, audit, cursor, cursor)
    BY <1>2, <2>1 DEF Rows
  <2>3. cursor + 0 = cursor /\ 0 \in 0..n
    BY <1>2
  <2> QED
    BY <1>1, <2>2, <2>3
<1>4. ASSUME NEW k \in 1..n, k-1 \in G
      PROVE  k \in G
  <2>1. /\ Rows(f[k-1], audit, cursor, cursor + (k-1)) /\ k \in 0..n
        /\ (cursor + (k-1)) + 1 = cursor + k /\ cursor + (k-1) \in Nat /\ cursor <= cursor + (k-1)
        /\ audit[cursor + k] \in Nat
    BY <1>2, <1>4
  <2>2. Rows(f[k-1] \o Same(cursor + k, audit[cursor + k]), audit, cursor, cursor + k)
    BY <1>2, <2>1, RowsGrow
  <2> QED
    BY <1>1, <2>1, <2>2
<1>5. G \in SUBSET (0..n)
  OBVIOUS
<1> HIDE DEF G
<1>6. n \in G
  <2>1. n \in Nat /\ n \in 0..n
    BY <1>2
  <2>2. \A i \in 0..n : i \in G
    BY <1>3, <1>4, <1>5, <2>1, Induct
  <2> QED
    BY <2>1, <2>2
<1> QED
  BY <1>1, <1>2, <1>6 DEF G

(* A page is the start of that; what it leaves out comes after it, or       *)
(* belongs to the transaction it ends in, and then the page is full.        *)
LEMMA PageIsStart ==
    ASSUME audit \in Seq(Nat), cursor \in 0..Len(audit), Newer # <<>>
    PROVE  /\ Page \in Seq(Nat) /\ Len(Page) > 0 /\ Last(Page) = Page[Len(Page)]
           /\ \A i \in 1..Len(Page) :
                Page[i] \in (cursor+1)..Len(audit) /\ audit[Page[i]] > 0 /\ Page[i] <= Last(Page)
           /\ \A i \in 1..Len(Page)-1 : Page[i] <= Page[i+1]
           /\ \A ts \in DOMAIN audit :
                /\ Times(Page, ts) <= IF ts > cursor THEN audit[ts] ELSE 0
                /\ ts > cursor /\ ts <= Last(Page) /\ Times(Page, ts) < audit[ts]
                     => ts = Last(Page) /\ Len(Page) = PageSize
<1> DEFINE s == Newer
           m == IF Len(s) < PageSize THEN Len(s) ELSE PageSize
<1>1. /\ s \in Seq(Nat) /\ Len(s) \in Nat /\ DOMAIN s = 1..Len(s) /\ Len(s) > 0
      /\ \A i \in 1..Len(s) : s[i] \in (cursor+1)..Len(audit) /\ audit[s[i]] > 0
      /\ \A i, j \in 1..Len(s) : i <= j => s[i] <= s[j]
      /\ \A ts \in Nat : Times(s, ts) = IF ts \in (cursor+1)..Len(audit) THEN audit[ts] ELSE 0
  <2>1. Rows(s, audit, cursor, Len(audit))
    BY NewerIsRows
  <2> HIDE DEF s
  <2>2. s \in Seq(Nat)
    BY <2>1 DEF Rows
  <2>3. Len(s) > 0 /\ Len(s) \in Nat /\ DOMAIN s = 1..Len(s)
    BY <2>2 DEF s
  <2> QED
    BY <2>1, <2>2, <2>3 DEF Rows
<1>2. Page = SubSeq(s, 1, m)
  BY DEF Page
<1> HIDE DEF s
<1>3. m \in 1..Len(s) /\ (m < Len(s) => m = PageSize)
  <2>1. Len(s) \in Nat /\ Len(s) > 0
    BY <1>1
  <2>2. PageSize \in Nat /\ PageSize > 0
    BY PageSizeIsPositive
  <2> QED
    BY <2>1, <2>2
<1> HIDE DEF m
<1>4. /\ Page \in Seq(Nat) /\ Len(Page) = m /\ DOMAIN Page = 1..m
      /\ \A i \in 1..m : Page[i] = s[i]
  BY <1>1, <1>2, <1>3
<1>5. Last(Page) = Page[m]
  BY <1>4 DEF Last
<1>6. ASSUME NEW i \in 1..m
      PROVE  /\ Page[i] \in (cursor+1)..Len(audit) /\ audit[Page[i]] > 0 /\ Page[i] <= Last(Page)
             /\ i < m => Page[i] <= Page[i+1]
  <2>1. i \in 1..Len(s) /\ m \in 1..Len(s) /\ i <= m /\ (i < m => i+1 \in 1..m /\ i+1 \in 1..Len(s))
    BY <1>1, <1>3
  <2> QED
    BY <1>1, <1>3, <1>4, <1>5, <2>1
<1>7. ASSUME NEW ts \in DOMAIN audit
      PROVE  /\ Times(Page, ts) <= Times(s, ts)
             /\ ts <= Last(Page) /\ Times(Page, ts) < Times(s, ts)
                  => ts = Last(Page) /\ m = PageSize
  <2> DEFINE P == {i \in DOMAIN Page : Page[i] = ts}
             A == {i \in DOMAIN s : s[i] = ts}
  <2>1. P \subseteq A /\ \A i \in A : i \in 1..m => i \in P
    <3>1. DOMAIN s = 1..Len(s) /\ DOMAIN Page = 1..m /\ \A i \in 1..m : Page[i] = s[i]
      BY <1>1, <1>4
    <3>2. \A i \in 1..m : i \in 1..Len(s)
      BY <1>1, <1>3
    <3> QED
      BY <3>1, <3>2
  <2>2. IsFiniteSet(A)
    BY <1>1, TimesType
  <2>3. Cardinality(P) <= Cardinality(A)
    <3> HIDE DEF P, A
    <3> QED
      BY <2>1, <2>2, FS_Subset
  <2>4. ASSUME ts <= Last(Page), Times(Page, ts) < Times(s, ts)
        PROVE  ts = Last(Page) /\ m = PageSize
    <3>1. P # A
      <4>1. Times(Page, ts) \in Nat
        BY <1>4, TimesType
      <4>2. Cardinality(P) \in Nat /\ Cardinality(P) < Cardinality(A)
        BY <2>4, <4>1 DEF Times
      <4> HIDE DEF P, A
      <4> QED
        BY <4>2
    <3>2. PICK i \in A : i \notin 1..m
      BY <2>1, <3>1
    <3>3. i \in 1..Len(s) /\ s[i] = ts /\ m < i
      BY <1>1, <1>3, <3>2
    <3>4. s[m] <= s[i] /\ s[m] \in Nat /\ Last(Page) = s[m]
      BY <1>1, <1>3, <1>4, <1>5, <3>3
    <3>5. ts \in Nat
      OBVIOUS
    <3> QED
      BY <1>1, <1>3, <2>4, <3>3, <3>4, <3>5
  <2> QED
    BY <2>3, <2>4 DEF Times
<1>8. ASSUME NEW ts \in DOMAIN audit
      PROVE  Times(s, ts) = IF ts > cursor THEN audit[ts] ELSE 0
  <2>1. ts \in Nat /\ (ts \in (cursor+1)..Len(audit) <=> ts > cursor)
    OBVIOUS
  <2> QED
    BY <1>1, <2>1
<1>9. Len(Page) > 0 /\ 1..Len(Page)-1 \subseteq 1..m /\ \A i \in 1..Len(Page)-1 : i < m
  BY <1>3, <1>4, <1>1
<1> QED
  <2>1. \A ts \in DOMAIN audit :
                /\ Times(Page, ts) <= IF ts > cursor THEN audit[ts] ELSE 0
                /\ ts > cursor /\ ts <= Last(Page) /\ Times(Page, ts) < audit[ts]
                     => ts = Last(Page) /\ Len(Page) = PageSize
    BY <1>4, <1>7, <1>8
  <2> QED
    BY <1>4, <1>5, <1>6, <1>9, <2>1
------------------------------------------------------------------------------
CallState == [step : {"out", "locked", "writing"}, batch : SUBSET Nat, ts : Nat]

(* A call that holds the lock goes to another of its states.                *)
LEMMA OneCallGoes ==
    ASSUME LatestOpen, NEW c \in Call, NEW r \in CallState, call' = [call EXCEPT ![c] = r],
           call[c].step # "out", r.step # "writing", audit' \in Seq(Nat), now' = Len(audit')
    PROVE  LatestOpen'
<1>1. /\ call \in [Call -> CallState]
      /\ \A d, e \in Call : call[d].step # "out" /\ call[e].step # "out" => d = e
  BY DEF LatestOpen, CallState
<1>2. call' \in [Call -> CallState] /\ call'[c] = r /\ \A d \in Call : d # c => call'[d] = call[d]
  BY <1>1
<1>3. \A d \in Call : d # c => call'[d].step = "out"
  BY <1>1, <1>2
<1>4. \A d \in Call : call'[d].step # "writing"
  BY <1>2, <1>3
<1> QED
  BY <1>2, <1>3, <1>4 DEF LatestOpen, CallState

(* A commit makes the rows of the latest transaction visible: the cursor is *)
(* still before it, for the last row sent was visible.                      *)
LEMMA CommitIsAhead ==
    ASSUME LatestOpen, FeedInOrder, NEW c \in Call, call[c].step = "writing",
           NEW rows \in Nat, Audit(c, rows), now' = now, UNCHANGED feedVars
    PROVE  FeedInOrder' /\ audit' \in Seq(Nat) /\ now' = Len(audit')
<1>1. /\ audit \in Seq(Nat) /\ now = Len(audit) /\ now \in DOMAIN audit /\ audit[now] = 0
      /\ audit' = [audit EXCEPT ![now] = rows] /\ DOMAIN audit = 1..now /\ now \in Nat
  <2>1. /\ audit \in Seq(Nat) /\ now = Len(audit) /\ now \in DOMAIN audit /\ audit[now] = 0
        /\ call[c].ts = now
    BY DEF LatestOpen
  <2>2. audit' = [audit EXCEPT ![now] = rows]
    BY <2>1 DEF Audit
  <2> QED
    BY <2>1, <2>2
<1>2. /\ audit' \in Seq(Nat) /\ Len(audit') = now /\ DOMAIN audit' = 1..now
      /\ audit'[now] = rows /\ \A ts \in 1..now : ts # now => audit'[ts] = audit[ts]
  BY <1>1
<1>3. cursor \in 0..now /\ cursor # now
  BY <1>1 DEF FeedInOrder
<1>4. sent \in Seq(Nat) /\ \A i \in DOMAIN sent : sent[i] # now
  BY <1>1, <1>3 DEF FeedInOrder
<1>5. Times(sent, now) = 0
  BY <1>4, TimesType
<1>6. ASSUME NEW ts \in DOMAIN audit'
      PROVE  /\ Times(sent, ts) <= audit'[ts]
             /\ ts <= cursor /\ Times(sent, ts) < audit'[ts] => ts \in cuts
  <2>1. CASE ts = now
    BY <1>1, <1>2, <1>3, <1>5, <2>1
  <2>2. CASE ts # now
    <3>1. ts \in DOMAIN audit /\ audit'[ts] = audit[ts]
      BY <1>1, <1>2, <2>2
    <3> QED
      BY <3>1 DEF FeedInOrder
  <2> QED
    BY <2>1, <2>2
<1>7. cursor > 0 => audit'[cursor] > 0
  <2>1. cursor > 0 => cursor \in 1..now /\ audit'[cursor] = audit[cursor]
    BY <1>2, <1>3
  <2> QED
    BY <2>1 DEF FeedInOrder
<1> QED
  <2>1. sent' = sent /\ cursor' = cursor /\ cuts' = cuts /\ now' = now
    BY DEF feedVars
  <2>2. \A ts : Times(sent, ts)' = Times(sent, ts)
    BY <2>1 DEF Times
  <2> QED
    BY <1>1, <1>2, <1>3, <1>6, <1>7, <2>1, <2>2 DEF FeedInOrder

(* A transaction begins, and has no rows yet.                               *)
LEMMA BeginsAhead ==
    ASSUME LatestOpen, FeedInOrder, NEW c \in Call, BeginTx(c), UNCHANGED feedVars
    PROVE  LatestOpen' /\ FeedInOrder'
<1>1. /\ audit \in Seq(Nat) /\ now = Len(audit) /\ now \in Nat /\ DOMAIN audit = 1..now
      /\ call \in [Call -> CallState]
      /\ \A d, e \in Call : call[d].step # "out" /\ call[e].step # "out" => d = e
  BY DEF LatestOpen, CallState
<1>2. /\ call[c].step = "locked" /\ now' = now + 1 /\ audit' = Append(audit, 0)
      /\ call' = [call EXCEPT ![c].step = "writing", ![c].ts = now + 1]
  BY DEF BeginTx
<1>3. /\ audit' \in Seq(Nat) /\ Len(audit') = now + 1 /\ DOMAIN audit' = 1..(now+1)
      /\ audit'[now+1] = 0 /\ \A ts \in 1..now : audit'[ts] = audit[ts]
  BY <1>1, <1>2
<1>4. LatestOpen'
  <2>1. /\ call' \in [Call -> CallState]
        /\ call'[c].step = "writing" /\ call'[c].ts = now + 1
        /\ \A d \in Call : d # c => call'[d] = call[d]
    <3>1. call \in [Call -> CallState] /\ now + 1 \in Nat
      BY <1>1
    <3>2. call' \in [Call -> CallState]
      BY <1>2, <3>1 DEF CallState
    <3>3. call'[c].step = "writing" /\ call'[c].ts = now + 1
      BY <1>2, <3>1 DEF CallState
    <3>4. \A d \in Call : d # c => call'[d] = call[d]
      BY <1>2, <3>1
    <3> QED
      BY <3>2, <3>3, <3>4
  <2>2. \A d \in Call : d # c => call'[d].step = "out"
    BY <1>1, <1>2, <2>1
  <2> QED
    BY <1>1, <1>2, <1>3, <2>1, <2>2 DEF LatestOpen, CallState
<1>5. /\ cursor \in 0..now /\ sent \in Seq(Nat) /\ \A i \in DOMAIN sent : sent[i] # now + 1
  BY <1>1 DEF FeedInOrder
<1>6. Times(sent, now+1) = 0
  BY <1>5, TimesType
<1>7. ASSUME NEW ts \in DOMAIN audit'
      PROVE  /\ Times(sent, ts) <= audit'[ts]
             /\ ts <= cursor /\ Times(sent, ts) < audit'[ts] => ts \in cuts
  <2>1. CASE ts = now + 1
    BY <1>1, <1>3, <1>5, <1>6, <2>1
  <2>2. CASE ts # now + 1
    <3>1. ts \in DOMAIN audit /\ audit'[ts] = audit[ts]
      BY <1>1, <1>3, <2>2
    <3> QED
      BY <3>1 DEF FeedInOrder
  <2> QED
    BY <2>1, <2>2
<1>8. cursor > 0 => audit'[cursor] > 0
  <2>1. cursor > 0 => cursor \in 1..now /\ audit'[cursor] = audit[cursor]
    BY <1>3, <1>5
  <2> QED
    BY <2>1 DEF FeedInOrder
<1> QED
  <2>1. sent' = sent /\ cursor' = cursor /\ cuts' = cuts
    BY DEF feedVars
  <2>2. \A ts : Times(sent, ts)' = Times(sent, ts)
    BY <2>1 DEF Times
  <2>3. cursor \in 0..now'
    BY <1>1, <1>2, <1>5
  <2> QED
    BY <1>4, <1>7, <1>8, <2>1, <2>2, <2>3 DEF FeedInOrder

(* A poll sends a page.                                                     *)
LEMMA PollIsInOrder ==
    ASSUME LatestOpen, FeedInOrder, Poll, UNCHANGED storeVars
    PROVE  FeedInOrder'
<1>1. /\ audit \in Seq(Nat) /\ now = Len(audit) /\ now \in Nat /\ DOMAIN audit = 1..now
      /\ audit' = audit /\ now' = now
  BY DEF LatestOpen, storeVars
<1>2. /\ sent \in Seq(Nat) /\ cursor \in 0..Len(audit) /\ Len(sent) \in Nat /\ DOMAIN sent = 1..Len(sent)
      /\ \A i \in 1..Len(sent) : sent[i] \in 1..cursor
      /\ \A i \in 1..Len(sent)-1 : sent[i] <= sent[i+1]
  BY <1>1 DEF FeedInOrder
<1>3. Newer # <<>> /\ sent' = sent \o Page /\ cursor' = Last(Page)
  BY DEF Poll
<1>4. /\ Page \in Seq(Nat) /\ Len(Page) > 0 /\ Last(Page) = Page[Len(Page)]
      /\ \A i \in 1..Len(Page) :
           Page[i] \in (cursor+1)..Len(audit) /\ audit[Page[i]] > 0 /\ Page[i] <= Last(Page)
      /\ \A i \in 1..Len(Page)-1 : Page[i] <= Page[i+1]
      /\ \A ts \in DOMAIN audit :
           /\ Times(Page, ts) <= IF ts > cursor THEN audit[ts] ELSE 0
           /\ ts > cursor /\ ts <= Last(Page) /\ Times(Page, ts) < audit[ts]
                => ts = Last(Page) /\ Len(Page) = PageSize
  BY <1>1, <1>2, <1>3, PageIsStart
<1>5. /\ sent' \in Seq(Nat) /\ Len(sent') = Len(sent) + Len(Page) /\ Len(Page) \in Nat
      /\ DOMAIN sent' = 1..(Len(sent) + Len(Page))
      /\ \A i \in 1..Len(sent) : sent'[i] = sent[i]
      /\ \A i \in 1..Len(Page) : sent'[Len(sent) + i] = Page[i]
  BY <1>2, <1>3, <1>4, Joined
<1>6. cursor' \in (cursor+1)..Len(audit) /\ audit[cursor'] > 0
  <2>1. Len(Page) \in 1..Len(Page)
    BY <1>4, <1>5
  <2> QED
    BY <1>3, <1>4, <2>1
<1>7. ASSUME NEW i \in DOMAIN sent', i \notin 1..Len(sent)
      PROVE  /\ i - Len(sent) \in 1..Len(Page) /\ sent'[i] = Page[i - Len(sent)]
             /\ sent'[i] \in (cursor+1)..cursor'
  <2>1. i - Len(sent) \in 1..Len(Page) /\ i = Len(sent) + (i - Len(sent))
    BY <1>2, <1>5, <1>7
  <2>2. sent'[i] = Page[i - Len(sent)]
    BY <1>5, <2>1
  <2> QED
    BY <1>2, <1>3, <1>4, <2>1, <2>2, SMTT(30)
<1>8. ASSUME NEW i \in DOMAIN sent'
      PROVE  sent'[i] \in 1..cursor'
  BY <1>2, <1>5, <1>6, <1>7
<1>9. ASSUME NEW i \in 1..Len(sent')-1
      PROVE  sent'[i] <= sent'[i+1]
  <2>1. i \in DOMAIN sent' /\ i+1 \in DOMAIN sent'
    BY <1>2, <1>5
  <2>2. CASE i+1 \in 1..Len(sent)
    <3>1. i \in 1..Len(sent)-1 /\ i \in 1..Len(sent)
      BY <1>2, <2>2
    <3> QED
      BY <1>2, <1>5, <2>2, <3>1
  <2>3. CASE i \in 1..Len(sent) /\ i+1 \notin 1..Len(sent)
    <3>1. sent'[i] \in 1..cursor /\ sent'[i+1] \in (cursor+1)..cursor'
      BY <1>2, <1>5, <1>7, <2>1, <2>3
    <3> QED
      BY <1>2, <1>6, <3>1
  <2>4. CASE i \notin 1..Len(sent)
    <3>1. i+1 \notin 1..Len(sent)
      BY <1>2, <2>4
    <3>2. /\ sent'[i] = Page[i - Len(sent)] /\ sent'[i+1] = Page[(i+1) - Len(sent)]
          /\ i - Len(sent) \in 1..Len(Page) /\ (i+1) - Len(sent) \in 1..Len(Page)
      BY <1>7, <2>1, <2>4, <3>1
    <3>3. (i+1) - Len(sent) = (i - Len(sent)) + 1 /\ i - Len(sent) \in 1..Len(Page)-1
      BY <1>2, <1>5, <3>2
    <3> QED
      BY <1>4, <3>2, <3>3
  <2> QED
    BY <1>2, <2>2, <2>3, <2>4
<1>10. ASSUME NEW ts \in DOMAIN audit
       PROVE  /\ Times(sent', ts) <= audit[ts]
              /\ ts <= cursor' /\ Times(sent', ts) < audit[ts] => ts \in cuts'
  <2>1. /\ Times(sent', ts) = Times(sent, ts) + Times(Page, ts)
        /\ Times(sent, ts) \in Nat /\ Times(Page, ts) \in Nat /\ audit[ts] \in Nat /\ ts \in Nat
    <3>1. sent \in Seq(Nat) /\ Page \in Seq(Nat) /\ sent' = sent \o Page
      BY <1>2, <1>3, <1>4
    <3>2. Times(sent \o Page, ts) = Times(sent, ts) + Times(Page, ts)
      BY <3>1, TimesJoined
    <3>3. Times(sent, ts) \in Nat /\ Times(Page, ts) \in Nat
      BY <3>1, TimesType
    <3>4. audit[ts] \in Nat /\ ts \in Nat
      BY <1>1
    <3> QED
      BY <3>1, <3>2, <3>3, <3>4
  <2>2. /\ Times(sent, ts) <= audit[ts]
        /\ ts <= cursor /\ Times(sent, ts) < audit[ts] => ts \in cuts
    BY DEF FeedInOrder
  <2>3. cuts' = IF Len(Page) = PageSize THEN cuts \cup {Last(Page)} ELSE cuts
    BY DEF Poll
  <2>4. CASE ts <= cursor
    <3>1. Times(Page, ts) = 0
      BY <1>2, <1>4, <2>1, <2>4
    <3> QED
      BY <2>1, <2>2, <2>3, <2>4, <3>1
  <2>5. CASE ts > cursor
    <3>1. Times(sent, ts) = 0
      <4>1. \A i \in DOMAIN sent : sent[i] # ts
        BY <1>2, <2>1, <2>5
      <4> QED
        BY <1>2, <4>1, TimesType
    <3> QED
      BY <1>3, <1>4, <2>1, <2>3, <2>5, <3>1
  <2> QED
    BY <1>2, <2>1, <2>4, <2>5
<1> QED
  <2>1. \A ts : Times(sent, ts)' = Times(sent', ts)
    BY DEF Times
  <2>2. cursor' \in 0..now' /\ (cursor' > 0 => audit'[cursor'] > 0)
    BY <1>1, <1>2, <1>6
  <2>3. \A ts \in DOMAIN audit' :
          /\ Times(sent, ts)' <= audit'[ts]
          /\ ts <= cursor' /\ Times(sent, ts)' < audit'[ts] => ts \in cuts'
    BY <1>1, <1>10, <2>1
  <2> QED
    BY <1>5, <1>8, <1>9, <2>2, <2>3 DEF FeedInOrder
(* Nothing of the feed changes.                                             *)
LEMMA FeedKept ==
    ASSUME LatestOpen, FeedInOrder, UNCHANGED <<audit, now, call, feedVars>>
    PROVE  LatestOpen' /\ FeedInOrder'
<1>1. audit' = audit /\ now' = now /\ call' = call /\ sent' = sent /\ cursor' = cursor /\ cuts' = cuts
  BY DEF feedVars
<1>2. LatestOpen'
  BY <1>1 DEF LatestOpen
<1>3. \A ts : Times(sent, ts)' = Times(sent, ts)
  BY <1>1 DEF Times
<1> QED
  BY <1>1, <1>2, <1>3 DEF FeedInOrder

(* The lock is taken, and freed.                                            *)
LEMMA LockStep ==
    ASSUME ReadTypeOK, LatestOpen, FeedInOrder, NEW c \in Call, Acquire(c) \/ Leave(c),
           UNCHANGED feedVars
    PROVE  LatestOpen' /\ FeedInOrder'
<1>1. /\ audit \in Seq(Nat) /\ now = Len(audit) /\ audit' = audit /\ now' = now
      /\ call \in [Call -> CallState]
  BY DEF LatestOpen, CallState, Acquire, Leave
<1>2. FeedInOrder'
  <2>1. sent' = sent /\ cursor' = cursor /\ cuts' = cuts
    BY DEF feedVars
  <2>2. \A ts : Times(sent, ts)' = Times(sent, ts)
    BY <2>1 DEF Times
  <2> QED
    BY <1>1, <2>1, <2>2 DEF FeedInOrder
<1>3. CASE Acquire(c)
  <2> DEFINE r == [Out EXCEPT !.step = "locked", !.batch = {i \in DOMAIN events : events[i].pending}]
  <2>1. \A d \in Call : call[d].step = "out"
    BY <1>3 DEF Acquire
  <2>2. r \in CallState /\ r.step = "locked"
    <3>1. {i \in DOMAIN events : events[i].pending} \in SUBSET Nat
      BY DEF ReadTypeOK
    <3> QED
      BY <3>1 DEF Out, CallState
  <2>3. call' = [call EXCEPT ![c] = r]
    BY <1>3 DEF Acquire
  <2> HIDE DEF r
  <2>4. /\ call' \in [Call -> CallState] /\ call'[c].step = "locked"
        /\ \A d \in Call : d # c => call'[d].step = "out"
    BY <1>1, <2>1, <2>2, <2>3
  <2> QED
    BY <1>1, <1>2, <2>4 DEF LatestOpen, CallState
<1>4. CASE Leave(c)
  <2>1. Out \in CallState /\ Out.step # "writing"
    BY DEF Out, CallState
  <2> QED
    BY <1>1, <1>2, <1>4, <2>1, OneCallGoes DEF Leave
<1> QED
  BY <1>3, <1>4

(* A transaction ends with its rows.                                        *)
LEMMA CommitStep ==
    ASSUME LatestOpen, FeedInOrder, NEW c \in Call, Write(c) \/ AuditFailure(c), UNCHANGED feedVars
    PROVE  LatestOpen' /\ FeedInOrder'
<1>1. /\ call[c].step = "writing" /\ now' = now
      /\ \E rows \in Nat : Audit(c, rows)
      /\ \/ call' = [call EXCEPT ![c] = Out]
         \/ call' = [call EXCEPT ![c].step = "locked"]
  <2>1. 1..MaxRows \subseteq Nat
    OBVIOUS
  <2>2. CASE Consolidate(c)
    BY <2>1, <2>2 DEF Consolidate
  <2>3. CASE Merge(c)
    BY <2>3 DEF Merge
  <2>4. CASE AuditFailure(c)
    BY <2>4 DEF AuditFailure
  <2> QED
    BY <2>2, <2>3, <2>4 DEF Write
<1>2. FeedInOrder' /\ audit' \in Seq(Nat) /\ now' = Len(audit')
  BY <1>1, CommitIsAhead
<1>3. PICK r \in CallState : r.step # "writing" /\ call' = [call EXCEPT ![c] = r]
  <2>1. call[c] \in CallState
    BY DEF LatestOpen, CallState
  <2>2. Out \in CallState /\ Out.step # "writing"
    BY DEF Out, CallState
  <2> DEFINE r == [call[c] EXCEPT !.step = "locked"]
  <2>3. r \in CallState /\ r.step = "locked"
    BY <2>1 DEF CallState
  <2>4. call' = [call EXCEPT ![c] = Out] \/ call' = [call EXCEPT ![c] = r]
    BY <1>1
  <2> QED
    BY <2>2, <2>3, <2>4
<1> QED
  BY <1>1, <1>2, <1>3, OneCallGoes

(* Every step keeps what the feed has sent in order.                        *)
LEMMA FeedStep ==
    ASSUME ReadTypeOK, LatestOpen, FeedInOrder, [RNext]_rvars
    PROVE  LatestOpen' /\ FeedInOrder'
<1>1. CASE Writing
  <2>1. PICK c \in Call : Acquire(c) \/ BeginTx(c) \/ Write(c) \/ AuditFailure(c) \/ Leave(c)
    BY <1>1 DEF Writing, Writers
  <2>2. UNCHANGED feedVars
    BY <1>1 DEF Writing
  <2> QED
    BY <2>1, <2>2, LockStep, CommitStep, BeginsAhead
<1>2. CASE Feed
  <2>1. Poll /\ UNCHANGED storeVars
    BY <1>2 DEF Feed
  <2>2. FeedInOrder'
    BY <2>1, PollIsInOrder
  <2>3. audit' = audit /\ now' = now /\ call' = call
    BY <2>1 DEF storeVars
  <2>4. LatestOpen'
    BY <2>3 DEF LatestOpen
  <2> QED
    BY <2>2, <2>4
<1>3. CASE AddNote \/ Save
  <2>1. UNCHANGED <<audit, now, call, feedVars>>
    BY <1>3 DEF AddNote, Add, Save, Insert
  <2> QED
    BY <2>1, FeedKept
<1>4. CASE Ask \/ Reading \/ Answered \/ (Chat /\ ~ Save) \/ UNCHANGED rvars
  <2>1. CASE Ask
    BY <2>1, FeedKept DEF Ask, Begin, storeVars
  <2>2. CASE Reading
    BY <2>2, FeedKept DEF Reading, ReadStep, Seed, HopEdges, HopNodes, HopsOver, ReadPending,
         AnswerRecall, AnswerGraph, Goes, storeVars
  <2>3. CASE Answered
    BY <2>3, FeedKept DEF Answered, Reply, storeVars
  <2>4. CASE Chat /\ ~ Save
    BY <2>4, FeedKept DEF Chat, TurnBegins, Begin, Context, Reply, Delta, Finished, TurnFails, storeVars
  <2>5. CASE UNCHANGED rvars
    BY <2>5, FeedKept DEF rvars, storeVars
  <2> QED
    BY <1>4, <2>1, <2>2, <2>3, <2>4, <2>5
<1> QED
  BY <1>1, <1>2, <1>3, <1>4 DEF RNext, Chat

(* The feed starts with nothing sent.                                       *)
LEMMA FeedStarts ==
    ASSUME RInit
    PROVE  LatestOpen /\ FeedInOrder
<1>1. audit = <<>> /\ now = 0 /\ call = [c \in Call |-> Out] /\ sent = <<>> /\ cursor = 0
  BY DEF RInit, StoreInit, FeedInit
<1> QED
  BY <1>1 DEF LatestOpen, FeedInOrder, Out
------------------------------------------------------------------------------
(* An order of a finite set is a sequence that has all its members.         *)
LEMMA OrderCovers ==
    ASSUME NEW S, IsFiniteSet(S), NEW order \in SetToSeqs(S)
    PROVE  /\ order \in Seq(S)
           /\ \A p \in S : \E i \in DOMAIN order : order[i] = p
<1> DEFINE n == Cardinality(S)
<1>1. n \in Nat
  BY FS_CardinalityType
<1>2. order \in [1..n -> S] /\ \A i, j \in 1..n : i # j => order[i] # order[j]
  BY DEF SetToSeqs
<1>3. order \in Injection(1..n, S)
  BY <1>2 DEF Injection, IsInjective
<1>4. IsFiniteSet(1..n) /\ Cardinality(1..n) = n
  BY <1>1, FS_Interval
<1>5. order \in Surjection(1..n, S)
  BY <1>3, <1>4, FS_Injection
<1> HIDE DEF n
<1>6. order \in Seq(S)
  BY <1>1, <1>2
<1> QED
  BY <1>2, <1>5, <1>6 DEF Surjection

(* A token stands for at most four characters.                              *)
LEMMA TokensBound ==
    ASSUME NEW x \in Nat
    PROVE  Tokens(x) \in Nat /\ Tokens(x) >= 1 /\ x <= 4 * Tokens(x)
  BY DEF Tokens

(* As many tokens as a text of that length has, and no more.                *)
LEMMA TokensFit ==
    ASSUME NEW x \in Nat, x # 0, NEW b \in Int, NEW r \in Nat, x + 3 <= 4 * b + r
    PROVE  Tokens(x) <= b + r \div 4
  BY DEF Tokens

Filling == [used : Nat, lines : Nat, chars : Nat]

(* What the next node costs and adds is a number.                           *)
LEMMA CostType ==
    ASSUME NEW order \in Seq(Node), NEW k \in 1..Len(order)
    PROVE  /\ Cost(order, k) \in Nat /\ Cost(order, k) >= 1
           /\ BlockLen[order[k]] \in Nat /\ HeaderLen \in Nat
           /\ 4 * Cost(order, k) >= BlockLen[order[k]] + (IF Leads(order, k) THEN HeaderLen ELSE 0)
<1>1. BlockLen[order[k]] \in Nat /\ HeaderLen \in Nat
  BY RecallConstants, SMTT(30)
<1>2. /\ Tokens(BlockLen[order[k]]) \in Nat /\ Tokens(BlockLen[order[k]]) >= 1
      /\ BlockLen[order[k]] <= 4 * Tokens(BlockLen[order[k]])
      /\ Tokens(HeaderLen) \in Nat /\ HeaderLen <= 4 * Tokens(HeaderLen)
  BY <1>1, TokensBound
<1>3. Cost(order, k) = Tokens(BlockLen[order[k]]) + (IF Leads(order, k) THEN Tokens(HeaderLen) ELSE 0)
  BY DEF Cost
<1> HIDE DEF Cost
<1> QED
  BY <1>1, <1>2, <1>3

(* _fill, node by node.                                                     *)
LEMMA FilledUnfolds ==
    ASSUME NEW order \in Seq(Node)
    PROVE  /\ Filled(order) \in [0..Len(order) -> Filling]
           /\ Filled(order)[0] = [used |-> 0, lines |-> 0, chars |-> 0]
           /\ \A k \in 1..Len(order) :
                Filled(order)[k] =
                  [used  |-> Filled(order)[k-1].used + Cost(order, k),
                   lines |-> Filled(order)[k-1].lines + (IF Leads(order, k) THEN 2 ELSE 1),
                   chars |-> Filled(order)[k-1].chars + BlockLen[order[k]]
                               + (IF Leads(order, k) THEN HeaderLen ELSE 0)]
<1> DEFINE n == Len(order)
           next(x, k) ==
             [used  |-> x.used + Cost(order, k),
              lines |-> x.lines + (IF Leads(order, k) THEN 2 ELSE 1),
              chars |-> x.chars + BlockLen[order[k]] + (IF Leads(order, k) THEN HeaderLen ELSE 0)]
           zero == [used |-> 0, lines |-> 0, chars |-> 0]
           step == [p \in Filling \X (1..n) |-> next(p[1], p[2])]
           g == Filled(order)
<1>1. g = CHOOSE f : f = [k \in 0..n |-> IF k = 0 THEN zero ELSE next(f[k-1], k)]
  BY DEF Filled
<1>2. n \in Nat /\ zero \in Filling
  BY DEF Filling
<1>3. ASSUME NEW x \in Filling, NEW k \in 1..n
      PROVE  next(x, k) \in Filling
  <2>1. /\ Cost(order, k) \in Nat /\ BlockLen[order[k]] \in Nat /\ HeaderLen \in Nat
        /\ x.used \in Nat /\ x.lines \in Nat /\ x.chars \in Nat
    BY CostType DEF Filling
  <2> DEFINE h == IF Leads(order, k) THEN HeaderLen ELSE 0
             l == IF Leads(order, k) THEN 2 ELSE 1
             u == x.used + Cost(order, k)
             v == x.lines + l
             w == x.chars + BlockLen[order[k]] + h
  <2>2. u \in Nat /\ v \in Nat /\ w \in Nat
    <3>1. h \in Nat /\ l \in Nat
      BY <2>1
    <3> HIDE DEF h, l
    <3>2. \A a, b \in Nat : a + b \in Nat
      OBVIOUS
    <3>3. BlockLen[order[k]] + h \in Nat
      BY <2>1, <3>1, <3>2
    <3>4. x.chars + BlockLen[order[k]] + h = x.chars + (BlockLen[order[k]] + h)
      BY <2>1, <3>1
    <3>5. u \in Nat
      BY <2>1, <3>2
    <3>6. v \in Nat
      BY <2>1, <3>1, <3>2
    <3>7. w \in Nat
      BY <2>1, <3>2, <3>3, <3>4
    <3> QED
      BY <3>5, <3>6, <3>7
  <2>3. next(x, k) = [used |-> u, lines |-> v, chars |-> w]
    OBVIOUS
  <2> HIDE DEF u, v, w
  <2> QED
    BY <2>2, <2>3 DEF Filling
<1> HIDE DEF n, g, next, zero
<1>4. step \in Steps(n, Filling) /\ \A x \in Filling, k \in 1..n : step[<<x, k>>] = next(x, k)
  BY <1>3 DEF Steps
<1> HIDE DEF step
<1>5. Runs(n, Filling, zero, step) # {}
  BY <1>2, <1>4, RecursionExists
<1>6. PICK f \in [0..n -> Filling] : f[0] = zero /\ \A k \in 1..n : f[k] = step[<<f[k-1], k>>]
  BY <1>5 DEF Runs
<1>7. \A k \in 1..n : f[k] = next(f[k-1], k)
  <2>1. \A k \in 1..n : f[k-1] \in Filling
    BY <1>2, <1>6
  <2> QED
    BY <1>4, <1>6, <2>1
<1>8. \A k \in 0..n : f[k] = IF k = 0 THEN zero ELSE next(f[k-1], k)
  <2>1. \A k \in 0..n : k = 0 \/ k \in 1..n
    BY <1>2
  <2> QED
    BY <1>6, <1>7, <2>1
<1>9. f = [k \in 0..n |-> IF k = 0 THEN zero ELSE next(f[k-1], k)]
  BY <1>6, <1>8
<1>10. g = [k \in 0..n |-> IF k = 0 THEN zero ELSE next(g[k-1], k)]
  BY <1>1, <1>9, Zenon
<1>11. g[0] = zero /\ \A k \in 1..n : g[k] = next(g[k-1], k)
  <2>1. \A k \in 0..n : g[k] = IF k = 0 THEN zero ELSE next(g[k-1], k)
    BY <1>10
  <2>2. 0 \in 0..n /\ \A k \in 1..n : k \in 0..n /\ k # 0
    BY <1>2
  <2> QED
    BY <2>1, <2>2
<1>12. \A k \in 0..n : g[k] = f[k]
  <2>1. InStep(n, g, f)
    BY <1>6, <1>7, <1>11 DEF InStep
  <2> QED
    BY <1>2, <2>1, Agree
<1>13. g \in [0..n -> Filling]
  <2>1. g = [k \in 0..n |-> g[k]]
    BY <1>10
  <2> QED
    BY <1>6, <1>12, <2>1
<1> QED
  BY <1>11, <1>13 DEF n, g, next, zero

(* One more block: its tokens count for its characters, header included.    *)
LEMMA OneBlock ==
    ASSUME NEW j \in Nat, j >= 1, NEW u \in Nat, NEW v \in Nat, NEW w \in Nat,
           NEW c \in Nat, NEW l \in Nat, NEW b \in Nat, NEW h \in Nat,
           u >= j-1, v >= j-1, w <= 4 * u, c >= 1, l >= 1, 4 * c >= b + h
    PROVE  u + c >= j /\ v + l >= j /\ w + b + h <= 4 * (u + c)
  OBVIOUS

(* Every node is worth a line and a token, and every four characters one.   *)
LEMMA FilledBounds ==
    ASSUME NEW order \in Seq(Node), NEW k \in 0..Len(order)
    PROVE  /\ Filled(order)[k] \in Filling
           /\ Filled(order)[k].used >= k /\ Filled(order)[k].lines >= k
           /\ Filled(order)[k].chars <= 4 * Filled(order)[k].used
<1> DEFINE g == Filled(order)
           n == Len(order)
           G == {j \in 0..n : g[j].used >= j /\ g[j].lines >= j /\ g[j].chars <= 4 * g[j].used}
<1>1. /\ n \in Nat /\ g \in [0..n -> Filling] /\ g[0] = [used |-> 0, lines |-> 0, chars |-> 0]
      /\ \A j \in 1..n : g[j] =
           [used  |-> g[j-1].used + Cost(order, j),
            lines |-> g[j-1].lines + (IF Leads(order, j) THEN 2 ELSE 1),
            chars |-> g[j-1].chars + BlockLen[order[j]] + (IF Leads(order, j) THEN HeaderLen ELSE 0)]
  BY FilledUnfolds
<1> HIDE DEF g
<1>2. 0 \in G
  BY <1>1
<1>3. ASSUME NEW j \in 1..n, j-1 \in G
      PROVE  j \in G
  <2> DEFINE h == IF Leads(order, j) THEN HeaderLen ELSE 0
             l == IF Leads(order, j) THEN 2 ELSE 1
             b == BlockLen[order[j]]
             c == Cost(order, j)
             x == g[j-1]
  <2>1. /\ c \in Nat /\ c >= 1 /\ b \in Nat /\ h \in Nat /\ 4 * c >= b + h
        /\ l \in Nat /\ l >= 1
    BY CostType
  <2>2. /\ x.used \in Nat /\ x.lines \in Nat /\ x.chars \in Nat
        /\ x.used >= j-1 /\ x.lines >= j-1 /\ x.chars <= 4 * x.used
    BY <1>1, <1>3 DEF Filling
  <2>3. /\ g[j].used = x.used + c /\ g[j].lines = x.lines + l /\ g[j].chars = x.chars + b + h
    <3>1. g[j] = [used |-> x.used + c, lines |-> x.lines + l, chars |-> x.chars + b + h]
      BY <1>1, Zenon
    <3> HIDE DEF h, l, b, c, x
    <3> QED
      BY <3>1
  <2>4. j \in 0..n /\ j \in Nat
    BY <1>1
  <2> HIDE DEF h, l, b, c, x
  <2>5. /\ x.used + c >= j /\ x.lines + l >= j
        /\ x.chars + b + h <= 4 * (x.used + c)
    <3>1. j >= 1
      BY <2>4
    <3> QED
      BY <2>1, <2>2, <2>4, <3>1, OneBlock
  <2>6. g[j].used >= j /\ g[j].lines >= j /\ g[j].chars <= 4 * g[j].used
    BY <2>3, <2>5
  <2> QED
    BY <2>4, <2>5, <2>6
<1>4. G \in SUBSET (0..n)
  OBVIOUS
<1> HIDE DEF G, n
<1>5. \A j \in 0..n : j \in G
  BY <1>1, <1>2, <1>3, <1>4, Induct
<1> QED
  BY <1>1, <1>5 DEF g, n, G
(* The text of the nodes and the notes together, by their tokens.           *)
LEMMA TextFits ==
    ASSUME NEW budget \in Nat, NEW used \in Nat, NEW l \in Nat, NEW c \in Nat, NEW notes \in Nat,
           c <= 4 * used, l = 0 \/ (used >= 1 /\ used <= budget), l = 0 => c = 0,
           notes = 0 \/ Tokens(BufferLen(notes)) <= budget - Tokens(TextLen(l, c)),
           NEW lines, lines = l + (IF notes = 0 THEN 0 ELSE 1 + notes), lines # 0,
           NEW chars, chars = c + (IF notes = 0 THEN 0 ELSE BufferHeaderLen + notes * NoteLen)
    PROVE  Tokens(TextLen(lines, chars)) <= budget + (lines + 2) \div 4
<1>1. CASE notes = 0
  <2>1. lines = l /\ chars = c /\ l # 0 /\ used >= 1 /\ used <= budget
    BY <1>1
  <2> DEFINE x == c + l - 1
  <2>2. x \in Nat /\ TextLen(lines, chars) = x /\ x + 3 <= 4 * budget + (lines + 2)
    BY <2>1 DEF TextLen
  <2> HIDE DEF x
  <2>3. CASE x = 0
    <3>1. Tokens(x) = 1 /\ (lines + 2) \div 4 \in Nat /\ budget >= 1
      BY <2>1, <2>3 DEF Tokens
    <3> QED
      BY <2>2, <3>1
  <2>4. CASE x # 0
    BY <2>1, <2>2, <2>4, TokensFit
  <2> QED
    BY <2>3, <2>4
<1>2. CASE notes # 0
  <2> DEFINE p == notes * NoteLen
             b == BufferLen(notes)
             t == TextLen(l, c)
             x == chars + lines - 1
  <2>1. /\ p \in Nat /\ BufferHeaderLen \in Nat /\ notes * (NoteLen + 1) = p + notes
    BY RecallConstants
  <2> HIDE DEF p
  <2>2. b = BufferHeaderLen + p + notes /\ b \in Nat
    BY <2>1 DEF BufferLen
  <2>3. lines = l + 1 + notes /\ chars = c + BufferHeaderLen + p
    <3>1. lines = l + (1 + notes) /\ chars = c + (BufferHeaderLen + p)
      BY <1>2, <2>1 DEF p
    <3> QED
      BY <2>1, <3>1
  <2>4. x = c + l + b /\ x \in Nat /\ x # 0 /\ TextLen(lines, chars) = x /\ lines \in Nat
    BY <1>2, <2>1, <2>2, <2>3 DEF TextLen
  <2>5. t \in Nat /\ (l = 0 => t = 0) /\ (l # 0 => t = c + l - 1)
    BY DEF TextLen
  <2> HIDE DEF b, t, x
  <2>6. /\ Tokens(b) \in Nat /\ Tokens(t) \in Nat /\ b <= 4 * Tokens(b) /\ t <= 4 * Tokens(t)
        /\ Tokens(t) >= 1
    BY <2>2, <2>5, TokensBound
  <2>7. Tokens(b) + Tokens(t) <= budget
    BY <1>2, <2>6 DEF b, t
  <2>8. x + 3 <= 4 * budget + 4
    BY <2>4, <2>5, <2>6, <2>7, <2>2
  <2>9. Tokens(x) <= budget + 1
    <3>1. x \in Nat /\ x # 0 /\ budget \in Int /\ 4 \in Nat /\ 4 \div 4 = 1
      BY <2>4
    <3>2. Tokens(x) <= budget + 4 \div 4
      BY <2>8, <3>1, TokensFit
    <3> QED
      BY <3>1, <3>2
  <2>10. Tokens(x) \in Nat
    BY <2>4, TokensBound
  <2>11. (lines + 2) \div 4 \in Nat /\ (lines + 2) \div 4 >= 1
    <3>1. lines \in Nat /\ lines >= 2
      BY <1>2, <2>3
    <3> QED
      BY <3>1
  <2> QED
    BY <2>4, <2>9, <2>10, <2>11
<1> QED
  BY <1>1, <1>2

(* What a recall answers with.                                              *)
LEMMA RecallAnswers ==
    ASSUME ReadTypeOK, AnswerRecall
    PROVE  /\ read' \in Reads
           /\ read'.step = "done" /\ read'.kind = read.kind /\ read'.found = read.found
           /\ read'.edges = read.edges /\ read'.frontier = read.frontier
           /\ read'.fetch = read.fetch /\ read'.hop = read.hop
           /\ read'.answer.nodes \subseteq read.found
           /\ read'.answer.links \subseteq read.edges
           /\ UNION read'.answer.links \subseteq read'.answer.nodes
           /\ BudgetKept'
<1>1. PICK budget \in Budgets, order \in Scored : \E n \in Chosen(order, budget) :
           LET text == Filled(order)[n]
           IN  \E notes \in NotesShown(budget - Tokens(TextLen(text.lines, text.chars))) :
                 read' = [read EXCEPT !.step = "done", !.budget = budget, !.answer =
                            [nodes |-> Shown(order, n),
                             links |-> {l \in read.edges : l \subseteq Shown(order, n)},
                             lines |-> text.lines, chars |-> text.chars, notes |-> notes]]
  BY DEF AnswerRecall
<1>2. PICK n \in Chosen(order, budget) :
           LET text == Filled(order)[n]
           IN  \E notes \in NotesShown(budget - Tokens(TextLen(text.lines, text.chars))) :
                 read' = [read EXCEPT !.step = "done", !.budget = budget, !.answer =
                            [nodes |-> Shown(order, n),
                             links |-> {l \in read.edges : l \subseteq Shown(order, n)},
                             lines |-> text.lines, chars |-> text.chars, notes |-> notes]]
  BY <1>1
<1> DEFINE text == Filled(order)[n]
<1>3. PICK notes \in NotesShown(budget - Tokens(TextLen(text.lines, text.chars))) :
                 read' = [read EXCEPT !.step = "done", !.budget = budget, !.answer =
                            [nodes |-> Shown(order, n),
                             links |-> {l \in read.edges : l \subseteq Shown(order, n)},
                             lines |-> text.lines, chars |-> text.chars, notes |-> notes]]
  BY <1>2
<1>4. budget \in Nat /\ read.found \in SUBSET Node /\ read.notes \in Nat /\ read.edges \in SUBSET SUBSET Node
  BY RecallConstants DEF ReadTypeOK, Reads
<1>5. order \in Seq(Node) /\ \A i \in DOMAIN order : order[i] \in read.found
  <2>1. IsFiniteSet(read.found)
    BY <1>4, StoreConstants, FS_Subset
  <2>2. order \in SetToSeqs(read.found)
    BY DEF Scored
  <2>3. order \in Seq(read.found)
    BY <2>1, <2>2, OrderCovers
  <2> QED
    BY <1>4, <2>3
<1>6. n \in 0..Len(order) /\ \A k \in 1..n : Filled(order)[k].used <= budget
  BY DEF Chosen
<1>7. /\ text \in Filling /\ text.used >= n /\ text.lines >= n /\ text.chars <= 4 * text.used
      /\ n = 0 => text.lines = 0 /\ text.chars = 0
  <2>1. /\ Filled(order)[n] \in Filling /\ Filled(order)[n].used >= n
        /\ Filled(order)[n].lines >= n /\ Filled(order)[n].chars <= 4 * Filled(order)[n].used
    BY <1>5, <1>6, FilledBounds
  <2>2. Filled(order)[0] = [used |-> 0, lines |-> 0, chars |-> 0]
    BY <1>5, FilledUnfolds
  <2> QED
    BY <2>1, <2>2
<1>8. /\ notes \in Nat
      /\ notes = 0 \/ Tokens(BufferLen(notes)) <= budget - Tokens(TextLen(text.lines, text.chars))
  <2> DEFINE remaining == budget - Tokens(TextLen(text.lines, text.chars))
             most == IF read.notes < BufferN THEN read.notes ELSE BufferN
  <2>1. most \in Nat
    BY <1>4, RecallConstants
  <2> HIDE DEF text
  <2>2. notes \in 0..most /\ (notes = 0 \/ Tokens(BufferLen(notes)) <= remaining)
    BY DEF NotesShown
  <2> HIDE DEF most, remaining
  <2>3. notes \in Nat
    BY <2>1, <2>2
  <2> QED
    BY <2>2, <2>3 DEF remaining
<1> DEFINE answer == [nodes |-> Shown(order, n),
                      links |-> {l \in read.edges : l \subseteq Shown(order, n)},
                      lines |-> text.lines, chars |-> text.chars, notes |-> notes]
<1>9. Shown(order, n) \subseteq read.found
  BY <1>5 DEF Shown
<1>10. /\ answer \in Answer /\ answer.nodes \subseteq read.found /\ answer.links \subseteq read.edges
       /\ UNION answer.links \subseteq answer.nodes
       /\ answer.lines = text.lines /\ answer.chars = text.chars /\ answer.notes = notes
  <2>1. text.lines \in Nat /\ text.chars \in Nat
    BY <1>7 DEF Filling
  <2> HIDE DEF text
  <2> QED
    BY <1>4, <1>8, <1>9, <2>1 DEF Answer
<1>11. n # 0 => text.used >= 1 /\ text.used <= budget
  BY <1>6, <1>7 DEF Filling
<1>12. read' = [read EXCEPT !.step = "done", !.budget = budget, !.answer = answer]
  BY <1>3
<1>13. text.used \in Nat /\ text.lines \in Nat /\ text.chars \in Nat
  BY <1>7 DEF Filling
<1> HIDE DEF text, answer
<1>14. /\ read' \in Reads
       /\ read'.step = "done" /\ read'.kind = read.kind /\ read'.found = read.found
       /\ read'.edges = read.edges /\ read'.frontier = read.frontier
       /\ read'.fetch = read.fetch /\ read'.hop = read.hop
       /\ read'.answer = answer /\ read'.budget = budget
  BY <1>4, <1>10, <1>12 DEF ReadTypeOK, Reads
<1>15. BudgetKept'
  <2> DEFINE lines == text.lines + (IF notes = 0 THEN 0 ELSE 1 + notes)
             chars == text.chars + (IF notes = 0 THEN 0 ELSE BufferHeaderLen + notes * NoteLen)
  <2>1. /\ text.lines = 0 \/ (text.used >= 1 /\ text.used <= budget)
        /\ text.lines = 0 => text.chars = 0
    BY <1>6, <1>7, <1>11, <1>13
  <2>2. lines # 0 => Tokens(TextLen(lines, chars)) <= budget + (lines + 2) \div 4
    BY <1>4, <1>7, <1>8, <1>13, <2>1, TextFits, ZenonT(60)
  <2> QED
    BY <1>10, <1>14, <2>2 DEF BudgetKept
<1> QED
  BY <1>10, <1>14, <1>15
------------------------------------------------------------------------------
(* The balls around the seeds, link by link.                                *)
LEMMA BallsUnfold ==
    ASSUME NEW live \in SUBSET Node, NEW S \in SUBSET live, NEW edges
    PROVE  /\ Balls(S, edges, live) \in [0..Hops -> SUBSET live]
           /\ Balls(S, edges, live)[0] = S
           /\ \A k \in 1..Hops :
                Balls(S, edges, live)[k] = Balls(S, edges, live)[k-1]
                    \cup (Near(Balls(S, edges, live)[k-1], edges) \cap live)
<1> DEFINE next(b) == b \cup ((UNION {l \in edges : l \cap b # {}}) \cap live)
           step == [p \in (SUBSET live) \X (1..Hops) |-> next(p[1])]
           g == Balls(S, edges, live)
<1>1. g = CHOOSE f : f = [k \in 0..Hops |-> IF k = 0 THEN S ELSE next(f[k-1])]
  BY DEF Balls
<1>2. Hops \in Nat
  BY RecallConstants
<1>3. \A b \in SUBSET live : next(b) \in SUBSET live /\ next(b) = b \cup (Near(b, edges) \cap live)
  BY DEF Near
<1> HIDE DEF g, next
<1>4. step \in Steps(Hops, SUBSET live) /\ \A b \in SUBSET live, k \in 1..Hops : step[<<b, k>>] = next(b)
  BY <1>3 DEF Steps
<1> HIDE DEF step
<1>5. Runs(Hops, SUBSET live, S, step) # {}
  BY <1>2, <1>4, RecursionExists
<1>6. PICK f \in [0..Hops -> SUBSET live] : f[0] = S /\ \A k \in 1..Hops : f[k] = step[<<f[k-1], k>>]
  BY <1>5 DEF Runs
<1>7. \A k \in 1..Hops : f[k] = next(f[k-1])
  <2>1. \A k \in 1..Hops : f[k-1] \in SUBSET live
    BY <1>2, <1>6
  <2> QED
    BY <1>4, <1>6, <2>1
<1>8. \A k \in 0..Hops : f[k] = IF k = 0 THEN S ELSE next(f[k-1])
  <2>1. \A k \in 0..Hops : k = 0 \/ k \in 1..Hops
    BY <1>2
  <2> QED
    BY <1>6, <1>7, <2>1
<1>9. f = [k \in 0..Hops |-> IF k = 0 THEN S ELSE next(f[k-1])]
  BY <1>6, <1>8
<1>10. g = [k \in 0..Hops |-> IF k = 0 THEN S ELSE next(g[k-1])]
  BY <1>1, <1>9, Zenon
<1>11. g[0] = S /\ \A k \in 1..Hops : g[k] = next(g[k-1])
  <2>1. \A k \in 0..Hops : g[k] = IF k = 0 THEN S ELSE next(g[k-1])
    BY <1>10
  <2>2. 0 \in 0..Hops /\ \A k \in 1..Hops : k \in 0..Hops /\ k # 0
    BY <1>2
  <2> QED
    BY <2>1, <2>2
<1>12. \A k \in 0..Hops : g[k] = f[k]
  <2>1. InStep(Hops, g, f)
    BY <1>6, <1>7, <1>11 DEF InStep
  <2> QED
    BY <1>2, <2>1, Agree
<1>13. g \in [0..Hops -> SUBSET live]
  <2>1. g = [k \in 0..Hops |-> g[k]]
    BY <1>10
  <2> QED
    BY <1>6, <1>12, <2>1
<1>14. \A k \in 1..Hops : g[k] = g[k-1] \cup (Near(g[k-1], edges) \cap live)
  <2>1. \A k \in 1..Hops : g[k-1] \in SUBSET live
    BY <1>2, <1>13
  <2> QED
    BY <1>3, <1>11, <2>1
<1> QED
  BY <1>11, <1>13, <1>14 DEF g

(* One of them.                                                             *)
LEMMA NextBall ==
    ASSUME NEW live \in SUBSET Node, NEW S \in SUBSET live, NEW edges, NEW i \in 1..Hops
    PROVE  Balls(S, edges, live)[i] = Balls(S, edges, live)[i-1]
             \cup (Near(Balls(S, edges, live)[i-1], edges) \cap live)
<1> DEFINE ball == Balls(S, edges, live)
<1>1. \A k \in 1..Hops : ball[k] = ball[k-1] \cup (Near(ball[k-1], edges) \cap live)
  BY BallsUnfold
<1> HIDE DEF ball
<1>2. ball[i] = ball[i-1] \cup (Near(ball[i-1], edges) \cap live)
  BY <1>1
<1> QED
  BY <1>2 DEF ball

(* Balls grow, and no further once one has all its live neighbours.         *)
LEMMA BallsGrow ==
    ASSUME NEW live \in SUBSET Node, NEW S \in SUBSET live, NEW edges, NEW i \in 0..Hops
    PROVE  /\ Balls(S, edges, live)[i] \subseteq Balls(S, edges, live)[Hops]
           /\ Near(Balls(S, edges, live)[i], edges) \cap live \subseteq Balls(S, edges, live)[i]
                => Balls(S, edges, live)[Hops] = Balls(S, edges, live)[i]
<1> DEFINE g == Balls(S, edges, live)
           closed == Near(g[i], edges) \cap live \subseteq g[i]
           G == {k \in 0..Hops : k >= i => g[i] \subseteq g[k] /\ (closed => g[k] = g[i])}
<1>1. \A k \in 1..Hops : g[k] = g[k-1] \cup (Near(g[k-1], edges) \cap live)
  BY BallsUnfold
<1>2. Hops \in Nat
  BY RecallConstants
<1> HIDE DEF g
<1>3. 0 \in G
  BY <1>2
<1>4. ASSUME NEW k \in 1..Hops, k-1 \in G
      PROVE  k \in G
  <2>1. CASE k-1 >= i
    <3>1. g[i] \subseteq g[k-1] /\ (closed => g[k-1] = g[i]) /\ k \in 0..Hops
      BY <1>2, <1>4, <2>1
    <3>2. g[k] = g[k-1] \cup (Near(g[k-1], edges) \cap live)
      BY <1>1
    <3> QED
      BY <3>1, <3>2
  <2>2. CASE ~ (k-1 >= i)
    <3>1. k <= i /\ k \in 0..Hops
      BY <1>2, <2>2
    <3> QED
      BY <3>1
  <2> QED
    BY <2>1, <2>2
<1>5. G \in SUBSET (0..Hops)
  OBVIOUS
<1> HIDE DEF G
<1>6. Hops \in G
  <2>1. \A k \in 0..Hops : k \in G
    BY <1>2, <1>3, <1>4, <1>5, Induct
  <2> QED
    BY <1>2, <2>1
<1>7. Hops >= i
  BY <1>2
<1>8. g[i] \subseteq g[Hops] /\ (closed => g[Hops] = g[i])
  BY <1>6, <1>7 DEF G
<1> QED
  BY <1>8 DEF g
(* What _expand keeps from edge to edge.                                    *)
Took == [used : [read.frontier -> Nat], fetch : SUBSET Node]

NoneTaken == [used |-> [n \in read.frontier |-> 0], fetch |-> {}]

(* The ends of an edge that bring in the other one.                         *)
Brings(acc, l) ==
    {n \in l \cap read.frontier :
        acc.used[n] < Fanout /\ ~ (l \ {n}) \subseteq read.found \cup acc.fetch}

(* One edge: without such an end nothing changes.                           *)
LEMMA TakeType ==
    ASSUME NEW acc \in Took, NEW l \in SUBSET Node
    PROVE  /\ Take(acc, l) \in Took
           /\ Brings(acc, l) = {} => Take(acc, l) = acc
           /\ Brings(acc, l) # {} =>
                /\ Take(acc, l).fetch = acc.fetch \cup (l \ read.found)
                /\ \A n \in read.frontier :
                     Take(acc, l).used[n] = acc.used[n] + (IF n \in Brings(acc, l) THEN 1 ELSE 0)
<1> DEFINE near == Brings(acc, l)
           more == [used |-> [n \in read.frontier |-> acc.used[n] + (IF n \in near THEN 1 ELSE 0)],
                    fetch |-> acc.fetch \cup (l \ read.found)]
<1>1. Take(acc, l) = IF near = {} THEN acc ELSE more
  BY DEF Take, Brings
<1> HIDE DEF near
<1>2. acc.used \in [read.frontier -> Nat] /\ acc.fetch \in SUBSET Node
  BY DEF Took
<1>3. \A n \in read.frontier : acc.used[n] + (IF n \in near THEN 1 ELSE 0) \in Nat
  BY <1>2
<1>4. more \in Took
  BY <1>2, <1>3 DEF Took
<1> QED
  BY <1>1, <1>4 DEF near

(* _expand, edge by edge.                                                   *)
LEMMA FetchedUnfolds ==
    ASSUME NEW order \in Seq(SUBSET Node)
    PROVE  \E f \in [0..Len(order) -> Took] :
             /\ f[0] = NoneTaken /\ Fetched(order) = f[Len(order)].fetch
             /\ \A k \in 1..Len(order) : f[k] = Take(f[k-1], order[k])
<1> DEFINE n == Len(order)
           step == [p \in Took \X (1..n) |-> Take(p[1], order[p[2]])]
           zero == [used |-> [m \in read.frontier |-> 0], fetch |-> {}]
           g == CHOOSE f : f = [k \in 0..n |-> IF k = 0 THEN zero ELSE Take(f[k-1], order[k])]
<1>1. Fetched(order) = g[n].fetch
  BY DEF Fetched
<1>2. n \in Nat /\ zero = NoneTaken /\ zero \in Took
  BY DEF NoneTaken, Took
<1>3. \A x \in Took, k \in 1..n : Take(x, order[k]) \in Took
  <2>1. \A k \in 1..n : order[k] \in SUBSET Node
    OBVIOUS
  <2> QED
    BY <2>1, TakeType
<1> HIDE DEF n, g, zero
<1>4. step \in Steps(n, Took) /\ \A x \in Took, k \in 1..n : step[<<x, k>>] = Take(x, order[k])
  BY <1>3 DEF Steps
<1> HIDE DEF step
<1>5. Runs(n, Took, zero, step) # {}
  BY <1>2, <1>4, RecursionExists
<1>6. PICK f \in [0..n -> Took] : f[0] = zero /\ \A k \in 1..n : f[k] = step[<<f[k-1], k>>]
  BY <1>5 DEF Runs
<1>7. \A k \in 1..n : f[k] = Take(f[k-1], order[k])
  <2>1. \A k \in 1..n : f[k-1] \in Took
    BY <1>2, <1>6
  <2> QED
    BY <1>4, <1>6, <2>1
<1>8. \A k \in 0..n : f[k] = IF k = 0 THEN zero ELSE Take(f[k-1], order[k])
  <2>1. \A k \in 0..n : k = 0 \/ k \in 1..n
    BY <1>2
  <2> QED
    BY <1>6, <1>7, <2>1
<1>9. f = [k \in 0..n |-> IF k = 0 THEN zero ELSE Take(f[k-1], order[k])]
  BY <1>6, <1>8
<1>10. g = [k \in 0..n |-> IF k = 0 THEN zero ELSE Take(g[k-1], order[k])]
  BY <1>9, Zenon DEF g
<1>11. g[0] = zero /\ \A k \in 1..n : g[k] = Take(g[k-1], order[k])
  <2>1. \A k \in 0..n : g[k] = IF k = 0 THEN zero ELSE Take(g[k-1], order[k])
    BY <1>10
  <2>2. 0 \in 0..n /\ \A k \in 1..n : k \in 0..n /\ k # 0
    BY <1>2
  <2> QED
    BY <2>1, <2>2
<1>12. g[n] = f[n]
  <2>1. InStep(n, g, f)
    BY <1>6, <1>7, <1>11 DEF InStep
  <2>2. \A k \in 0..n : g[k] = f[k]
    BY <1>2, <2>1, Agree
  <2> QED
    BY <1>2, <2>2
<1> QED
  BY <1>1, <1>2, <1>6, <1>7, <1>12 DEF n

(* The edges that touch the frontier are finitely many.                     *)
LEMMA TouchingFinite ==
    ASSUME ReadTypeOK, NEW T
    PROVE  /\ links \in SUBSET SUBSET Node /\ IsFiniteSet(links) /\ IsFiniteSet(Touching(T))
           /\ Near(T, links) = UNION Touching(T) /\ Near(T, links) \in SUBSET Node
<1>1. links \in SUBSET SUBSET Node
  BY DEF ReadTypeOK, Pair
<1>2. IsFiniteSet(SUBSET Node)
  BY StoreConstants, FS_SUBSET
<1>3. IsFiniteSet(links)
  BY <1>1, <1>2, FS_Subset
<1>4. Touching(T) \in SUBSET links
  BY DEF Touching
<1>5. IsFiniteSet(Touching(T))
  BY <1>3, <1>4, FS_Subset
<1> QED
  BY <1>1, <1>3, <1>5 DEF Near, Touching

(* What is fetched is on the other side of an edge.                         *)
LEMMA FetchedIsNear ==
    ASSUME ReadTypeOK, NEW order \in SetToSeqs(Touching(read.frontier))
    PROVE  Fetched(order) \subseteq Near(read.frontier, links) \ read.found
<1> DEFINE T == Touching(read.frontier)
           n == Len(order)
           around == Near(read.frontier, links) \ read.found
<1>1. /\ IsFiniteSet(T) /\ T \subseteq SUBSET Node
      /\ \A l \in T : l \ read.found \subseteq around
  BY TouchingFinite DEF Touching, Near
<1>2. order \in Seq(T)
  BY <1>1, OrderCovers
<1> HIDE DEF T, around
<1>3. order \in Seq(SUBSET Node) /\ n \in Nat /\ \A k \in 1..n : order[k] \in T /\ order[k] \in SUBSET Node
  BY <1>1, <1>2
<1>4. PICK f \in [0..n -> Took] :
             /\ f[0] = NoneTaken /\ Fetched(order) = f[n].fetch
             /\ \A k \in 1..n : f[k] = Take(f[k-1], order[k])
  BY <1>3, FetchedUnfolds
<1> HIDE DEF n
<1> DEFINE G == {k \in 0..n : f[k].fetch \subseteq around}
<1>5. 0 \in G
  BY <1>3, <1>4 DEF NoneTaken
<1>6. ASSUME NEW k \in 1..n, k-1 \in G
      PROVE  k \in G
  <2> DEFINE acc == f[k-1]
             l == order[k]
  <2>1. /\ acc \in Took /\ acc.fetch \subseteq around /\ l \in T /\ l \in SUBSET Node /\ k \in 0..n
        /\ f[k] = Take(acc, l)
    BY <1>3, <1>4, <1>6
  <2> HIDE DEF acc, l
  <2>2. Take(acc, l) = acc \/ Take(acc, l).fetch = acc.fetch \cup (l \ read.found)
    BY <2>1, TakeType
  <2>3. f[k].fetch \subseteq around
    BY <1>1, <2>1, <2>2
  <2> QED
    BY <2>1, <2>3
<1>7. G \in SUBSET (0..n)
  OBVIOUS
<1> HIDE DEF G
<1>8. \A k \in 0..n : k \in G
  BY <1>3, <1>5, <1>6, <1>7, Induct
<1> QED
  BY <1>3, <1>4, <1>8 DEF G, around
(* Nodes that have no more links than the fan-out bring in everything on    *)
(* the other side: what an end has brought in so far came with edges of its *)
(* own, and the next one is one more of them.                               *)
LEMMA FetchedIsAll ==
    ASSUME ReadTypeOK, read.frontier \subseteq read.found,
           \A n \in read.found : Cardinality({l \in links : n \in l}) <= Fanout,
           NEW order \in SetToSeqs(Touching(read.frontier))
    PROVE  Near(read.frontier, links) \subseteq read.found \cup Fetched(order)
<1> DEFINE T == Touching(read.frontier)
           z == Len(order)
           Own(n) == {l \in links : n \in l}
           Past(n, k) == {l \in links : n \in l /\ \E i \in 1..k : order[i] = l}
<1>1. /\ IsFiniteSet(T) /\ T \subseteq SUBSET Node /\ T \subseteq links /\ IsFiniteSet(links)
      /\ Near(read.frontier, links) = UNION T
      /\ \A l \in T : l \cap read.frontier # {}
  BY TouchingFinite DEF Touching
<1>2. order \in Seq(T) /\ \A l \in T : \E i \in DOMAIN order : order[i] = l
  BY <1>1, OrderCovers
<1>3. \A i, j \in DOMAIN order : i # j => order[i] # order[j]
  BY DEF SetToSeqs
<1> HIDE DEF T
<1>4. /\ order \in Seq(SUBSET Node) /\ z \in Nat /\ DOMAIN order = 1..z
      /\ \A k \in 1..z : order[k] \in T /\ order[k] \in SUBSET Node
  BY <1>1, <1>2
<1>5. PICK f \in [0..z -> Took] :
             /\ f[0] = NoneTaken /\ Fetched(order) = f[z].fetch
             /\ \A k \in 1..z : f[k] = Take(f[k-1], order[k])
  BY <1>4, FetchedUnfolds
<1> HIDE DEF z
<1>6. ASSUME NEW n \in read.frontier, NEW k \in 0..z
      PROVE  /\ IsFiniteSet(Past(n, k)) /\ Cardinality(Past(n, k)) \in Nat
             /\ Cardinality(Past(n, k)) <= Fanout
  <2>1. Past(n, k) \in SUBSET Own(n) /\ Own(n) \in SUBSET links
    OBVIOUS
  <2>2. Cardinality(Own(n)) <= Fanout
    OBVIOUS
  <2> HIDE DEF Past, Own
  <2>3. IsFiniteSet(Own(n))
    BY <1>1, <2>1, FS_Subset
  <2>4. IsFiniteSet(Past(n, k)) /\ Cardinality(Past(n, k)) <= Cardinality(Own(n))
    BY <2>1, <2>3, FS_Subset
  <2>5. Cardinality(Past(n, k)) \in Nat /\ Cardinality(Own(n)) \in Nat /\ Fanout \in Nat
    BY <2>3, <2>4, FS_CardinalityType, RecallConstants
  <2> QED
    BY <2>2, <2>4, <2>5
<1>7. ASSUME NEW n \in read.frontier, NEW k \in 1..z
      PROVE  /\ n \in order[k] => Cardinality(Past(n, k)) = Cardinality(Past(n, k-1)) + 1
             /\ n \notin order[k] => Past(n, k) = Past(n, k-1)
  <2>1. k-1 \in 0..z /\ 1..k = (1..(k-1)) \cup {k} /\ k \notin 1..(k-1)
    BY <1>4
  <2>2. n \notin order[k] => Past(n, k) = Past(n, k-1)
    BY <2>1
  <2>3. ASSUME n \in order[k]
        PROVE  Past(n, k) = Past(n, k-1) \cup {order[k]} /\ order[k] \notin Past(n, k-1)
    <3>1. order[k] \in links
      BY <1>1, <1>4
    <3>2. \A i \in 1..(k-1) : order[i] # order[k]
      BY <1>3, <1>4, <2>1
    <3> QED
      BY <2>1, <2>3, <3>1, <3>2
  <2>4. IsFiniteSet(Past(n, k-1))
    BY <1>6, <2>1
  <2> HIDE DEF Past
  <2> QED
    BY <2>2, <2>3, <2>4, FS_AddElement
<1> DEFINE G == {k \in 0..z : /\ \A n \in read.frontier : f[k].used[n] <= Cardinality(Past(n, k))
                              /\ \A i \in 1..k : order[i] \subseteq read.found \cup f[k].fetch}
<1>8. 0 \in G
  <2>1. ASSUME NEW n \in read.frontier
        PROVE  f[0].used[n] <= Cardinality(Past(n, 0))
    <3>1. f[0].used[n] = 0
      BY <1>5 DEF NoneTaken
    <3>2. Cardinality(Past(n, 0)) \in Nat
      BY <1>4, <1>6
    <3> QED
      BY <3>1, <3>2
  <2> QED
    BY <1>4, <2>1
<1>9. ASSUME NEW k \in 1..z, k-1 \in G
      PROVE  k \in G
  <2> DEFINE acc == f[k-1]
             l == order[k]
  <2>1. /\ k-1 \in 0..z /\ k \in 0..z /\ acc \in Took /\ l \in T /\ l \in SUBSET Node
        /\ f[k] = Take(acc, l)
    BY <1>4, <1>5
  <2>2. /\ \A n \in read.frontier : acc.used[n] <= Cardinality(Past(n, k-1))
        /\ \A i \in 1..(k-1) : order[i] \subseteq read.found \cup acc.fetch
    BY <1>9
  <2>3. /\ f[k] \in Took
        /\ Brings(acc, l) = {} => f[k] = acc
        /\ Brings(acc, l) # {} =>
             /\ f[k].fetch = acc.fetch \cup (l \ read.found)
             /\ \A n \in read.frontier :
                  f[k].used[n] = acc.used[n] + (IF n \in Brings(acc, l) THEN 1 ELSE 0)
    BY <2>1, TakeType
  <2>4. \A n \in read.frontier : acc.used[n] \in Nat
    BY <2>1 DEF Took
  <2>5. \A n \in read.frontier : /\ n \in l => Cardinality(Past(n, k)) = Cardinality(Past(n, k-1)) + 1
                                 /\ n \notin l => Cardinality(Past(n, k)) = Cardinality(Past(n, k-1))
    BY <1>7
  <2>6. \A n \in read.frontier : /\ Cardinality(Past(n, k)) \in Nat /\ Cardinality(Past(n, k-1)) \in Nat
                                 /\ Cardinality(Past(n, k)) <= Fanout
    BY <1>6, <2>1
  <2> HIDE DEF acc, l, Past
  <2>7. ASSUME NEW n \in read.frontier
        PROVE  f[k].used[n] <= Cardinality(Past(n, k))
    <3>1. /\ acc.used[n] \in Nat /\ acc.used[n] <= Cardinality(Past(n, k-1))
          /\ Cardinality(Past(n, k)) \in Nat /\ Cardinality(Past(n, k-1)) \in Nat
      BY <2>2, <2>4, <2>6
    <3>2. CASE n \in Brings(acc, l)
      <4>1. n \in l /\ f[k].used[n] = acc.used[n] + 1
        BY <2>3, <3>2 DEF Brings
      <4> QED
        BY <2>5, <3>1, <4>1
    <3>3. CASE n \notin Brings(acc, l)
      <4>1. f[k].used[n] = acc.used[n]
        BY <2>3, <3>1, <3>3
      <4>2. Cardinality(Past(n, k-1)) <= Cardinality(Past(n, k))
        BY <2>5, <3>1
      <4> QED
        BY <3>1, <4>1, <4>2
    <3> QED
      BY <3>2, <3>3
  <2>8. acc.fetch \subseteq f[k].fetch
    BY <2>3
  <2>9. l \subseteq read.found \cup f[k].fetch
    <3>1. CASE Brings(acc, l) # {}
      BY <2>3, <3>1
    <3>2. CASE Brings(acc, l) = {}
      <4>1. PICK n \in l : n \in read.frontier
        BY <1>1, <2>1
      <4>2. acc.used[n] < Fanout
        <5>1. /\ acc.used[n] <= Cardinality(Past(n, k-1)) /\ acc.used[n] \in Nat
              /\ Cardinality(Past(n, k)) = Cardinality(Past(n, k-1)) + 1
              /\ Cardinality(Past(n, k)) <= Fanout /\ Cardinality(Past(n, k-1)) \in Nat
          BY <2>2, <2>4, <2>5, <2>6, <4>1
        <5>2. Fanout \in Nat
          BY RecallConstants
        <5> QED
          BY <5>1, <5>2
      <4>3. l \ {n} \subseteq read.found \cup acc.fetch
        BY <3>2, <4>1, <4>2 DEF Brings
      <4>4. n \in read.found
        BY <4>1
      <4> QED
        BY <2>8, <4>3, <4>4
    <3> QED
      BY <3>1, <3>2
  <2>10. ASSUME NEW i \in 1..k
         PROVE  order[i] \subseteq read.found \cup f[k].fetch
    <3>1. i \in 1..(k-1) \/ i = k
      BY <1>4
    <3> QED
      BY <2>2, <2>8, <2>9, <3>1 DEF l
  <2> QED
    BY <2>1, <2>7, <2>10
<1>10. G \in SUBSET (0..z)
  OBVIOUS
<1> HIDE DEF G
<1>11. z \in G
  <2>1. \A k \in 0..z : k \in G
    BY <1>4, <1>8, <1>9, <1>10, Induct
  <2> QED
    BY <1>4, <2>1
<1>12. \A i \in 1..z : order[i] \subseteq read.found \cup Fetched(order)
  BY <1>5, <1>11 DEF G
<1> QED
  BY <1>1, <1>2, <1>4, <1>12
------------------------------------------------------------------------------
(* Nothing that the readers' invariant looks at changes but the events.     *)
LEMMA ReadKept ==
    ASSUME RecallInv, UNCHANGED <<status, links, recallVars>>,
           events' \in Seq([type : EventType, pending : BOOLEAN])
    PROVE  RecallInv'
<1>1. /\ status' = status /\ links' = links /\ read' = read /\ lived' = lived /\ linked' = linked
      /\ quiet' = quiet
  BY DEF recallVars
<1>2. Live' = Live
  BY <1>1 DEF Live
<1>3. Seeds' = Seeds
  BY <1>1, <1>2 DEF Seeds, Nearest
<1>4. ReadTypeOK' /\ NothingStale' /\ AnswerSound' /\ BudgetKept'
  BY <1>1, <1>2 DEF RecallInv, ReadTypeOK, NothingStale, AnswerSound, BudgetKept
<1>5. OnTheWay'
  BY <1>1, <1>2, <1>3 DEF RecallInv, OnTheWay
<1> QED
  BY <1>4, <1>5 DEF RecallInv

(* A new request.                                                           *)
LEMMA RequestType ==
    ASSUME NEW kind \in {"recall", "graph", "focus"}
    PROVE  Request(kind) \in Reads /\ Request(kind).step = "idle" /\ Request(kind).found = {}
           /\ Request(kind).edges = {} /\ Request(kind).frontier = {} /\ Request(kind).kind = kind
           /\ Request(kind).hop = 0
<1>1. Unread \in Nat
  BY StoreConstants DEF Unread
<1>2. NoAnswer \in Answer
  BY DEF NoAnswer, Answer
<1>3. 0 \in 0..Hops
  BY RecallConstants
<1> QED
  BY <1>1, <1>2, <1>3 DEF Request, Reads

(* The readers start idle, on a graph of proper edges.                      *)
LEMMA ReadStarts ==
    ASSUME RInit
    PROVE  RecallInv
<1>1. \A l \in links : Pair(l)
  BY StoreConstants DEF RInit, StoreInit, Pair
<1>2. events \in Seq([type : EventType, pending : BOOLEAN])
  BY DEF RInit, StoreInit
<1>3. read \in Reads /\ read.step = "idle" /\ quiet = FALSE
  BY RequestType DEF RInit, RecallInit
<1> QED
  BY <1>1, <1>2, <1>3 DEF RecallInv, ReadTypeOK, NothingStale, OnTheWay, AnswerSound, BudgetKept

(* A merge leaves no edge from a node to itself.                            *)
LEMMA MergedPairs ==
    ASSUME NEW k, Pair(k), NEW keep \in Node, NEW drop \in Node,
           NEW l, l = (IF drop \in k THEN (k \ {drop}) \cup {keep} ELSE k), Cardinality(l) = 2
    PROVE  Pair(l)
<1>1. PICK m, n \in Node : m # n /\ k = {m, n}
  BY DEF Pair
<1>2. CASE drop \notin k
  BY <1>2 DEF Pair
<1>3. CASE drop \in k
  <2>1. PICK other \in Node : k \ {drop} = {other}
    BY <1>1, <1>3
  <2>2. l = {other, keep}
    BY <1>3, <2>1
  <2>3. other # keep
    <3>1. other = keep => l = {keep}
      BY <2>2
    <3>2. Cardinality({keep}) = 1
      BY FS_Singleton
    <3> QED
      BY <3>1, <3>2
  <2> QED
    BY <2>2, <2>3 DEF Pair
<1> QED
  BY <1>2, <1>3

(* What a call does to the graph and the events.                            *)
LEMMA CallType ==
    ASSUME ReadTypeOK, NEW c \in Call,
           Acquire(c) \/ BeginTx(c) \/ Write(c) \/ AuditFailure(c) \/ Leave(c)
    PROVE  /\ \A l \in links' : Pair(l)
           /\ events' \in Seq([type : EventType, pending : BOOLEAN])
<1>1. CASE Acquire(c) \/ BeginTx(c) \/ AuditFailure(c) \/ Leave(c)
  BY <1>1 DEF ReadTypeOK, Acquire, BeginTx, AuditFailure, Leave
<1>2. CASE Consolidate(c)
  <2>1. \A l \in links' : Pair(l)
    <3>1. CASE links' = links
      BY <3>1 DEF ReadTypeOK
    <3>2. CASE \E n \in Node, m \in Live : n # m /\ links' = links \cup {{m, n}}
      <4>1. PICK n \in Node, m \in Live : n # m /\ links' = links \cup {{m, n}}
        BY <3>2
      <4>2. Pair({m, n})
        BY <4>1 DEF Pair, Live
      <4> QED
        BY <4>1, <4>2 DEF ReadTypeOK
    <3> QED
      BY <1>2, <3>1, <3>2 DEF Consolidate
  <2>2. events' = [i \in DOMAIN events |-> [events[i] EXCEPT !.pending = @ /\ i \notin call[c].batch]]
    BY <1>2 DEF Consolidate
  <2> DEFINE E == [type : EventType, pending : BOOLEAN]
             b(i) == events[i].pending /\ i \notin call[c].batch
  <2>3. events \in Seq(E)
    BY DEF ReadTypeOK
  <2>4. \A i : b(i) \in BOOLEAN
    BY Zenon
  <2>5. \A e \in E, v \in BOOLEAN : [e EXCEPT !.pending = v] \in E
    OBVIOUS
  <2>6. events' = [i \in DOMAIN events |-> [events[i] EXCEPT !.pending = b(i)]]
    BY <2>2
  <2> HIDE DEF E, b
  <2>7. Len(events) \in Nat /\ DOMAIN events = 1..Len(events) /\ \A i \in 1..Len(events) : events[i] \in E
    BY <2>3
  <2>8. events' \in [1..Len(events) -> E]
    BY <2>4, <2>5, <2>6, <2>7
  <2>9. events' \in Seq(E)
    BY <2>7, <2>8
  <2> QED
    BY <2>1, <2>9 DEF E
<1>3. CASE Merge(c)
  <2>1. PICK keep, drop \in Live :
          links' = {l \in {IF drop \in k THEN (k \ {drop}) \cup {keep} ELSE k : k \in links} :
                        Cardinality(l) = 2}
    BY <1>3 DEF Merge
  <2>2. ASSUME NEW l \in links'
        PROVE  Pair(l)
    <3>1. PICK k \in links : l = (IF drop \in k THEN (k \ {drop}) \cup {keep} ELSE k)
      BY <2>1
    <3>2. Cardinality(l) = 2
      BY <2>1
    <3>3. Pair(k) /\ keep \in Node /\ drop \in Node
      BY DEF ReadTypeOK, Live
    <3> QED
      BY <3>1, <3>2, <3>3, MergedPairs
  <2> QED
    BY <1>3, <2>2 DEF Merge, ReadTypeOK
<1> QED
  BY <1>1, <1>2, <1>3 DEF Write

(* The writers go on while a request walks: what it has read has lived, and *)
(* its walk is through the same graph or no longer quiet.                   *)
LEMMA WritingKeeps ==
    ASSUME RecallInv, Writing
    PROVE  RecallInv'
<1>1. PICK c \in Call : Acquire(c) \/ BeginTx(c) \/ Write(c) \/ AuditFailure(c) \/ Leave(c)
  BY DEF Writing, Writers
<1>2. read' = read /\ read.step # "done" /\ Witness
  BY DEF Writing, Witness
<1>3. /\ \A l \in links' : Pair(l)
      /\ events' \in Seq([type : EventType, pending : BOOLEAN])
  BY <1>1, CallType DEF RecallInv
<1>4. CASE read.step = "idle"
  <2>1. quiet' = quiet
    BY <1>2, <1>4 DEF Witness
  <2> QED
    BY <1>2, <1>3, <1>4, <2>1 DEF RecallInv, ReadTypeOK, NothingStale, OnTheWay, AnswerSound, BudgetKept
<1>5. CASE read.step # "idle"
  <2>1. /\ lived' = lived \cup Live' /\ linked' = linked \cup links'
        /\ quiet' = (quiet /\ status' = status /\ links' = links)
    BY <1>2, <1>5 DEF Witness, Live
  <2>2. ReadTypeOK'
    BY <1>2, <1>3, <2>1 DEF RecallInv, ReadTypeOK
  <2>3. NothingStale'
    BY <1>2, <1>5, <2>1 DEF RecallInv, NothingStale
  <2>4. AnswerSound' /\ BudgetKept'
    BY <1>2 DEF AnswerSound, BudgetKept
  <2>5. OnTheWay'
    <3>1. CASE quiet'
      <4>1. quiet /\ Live' = Live /\ links' = links
        BY <2>1, <3>1 DEF Live
      <4>2. Seeds' = Seeds
        BY <1>2, <4>1 DEF Seeds, Nearest
      <4> QED
        BY <1>2, <4>1, <4>2 DEF RecallInv, OnTheWay
    <3>2. CASE ~ quiet'
      BY <1>2, <3>2 DEF RecallInv, OnTheWay
    <3> QED
      BY <3>1, <3>2
  <2> QED
    BY <2>2, <2>3, <2>4, <2>5 DEF RecallInv
<1> QED
  BY <1>4, <1>5

(* A request begins, and one is over.                                       *)
LEMMA BeginKeeps ==
    ASSUME RecallInv, NEW kind \in {"recall", "graph", "focus"}, Begin(kind)
    PROVE  RecallInv'
<1>1. /\ read' = [Request(kind) EXCEPT !.step = "seed"] /\ lived' = Live /\ linked' = links
      /\ quiet' = TRUE /\ status' = status /\ links' = links /\ events' = events
  BY DEF Begin, storeVars
<1>2. /\ read' \in Reads /\ read'.step = "seed" /\ read'.found = {} /\ read'.edges = {}
      /\ read'.frontier = {} /\ read'.hop = 0
  BY <1>1, RequestType DEF Reads
<1>3. Live' = Live
  BY <1>1 DEF Live
<1> QED
  BY <1>1, <1>2, <1>3 DEF RecallInv, ReadTypeOK, NothingStale, OnTheWay, AnswerSound, BudgetKept

(* A walk that ends has gone its hops, or has nothing left on its frontier. *)
LEMMA OverKeeps ==
    ASSUME RecallInv, read' = Request("recall"), quiet' = FALSE, UNCHANGED storeVars
    PROVE  RecallInv'
<1>1. links' = links /\ events' = events
  BY DEF storeVars
<1>2. read' \in Reads /\ read'.step = "idle"
  BY RequestType
<1> QED
  BY <1>1, <1>2 DEF RecallInv, ReadTypeOK, NothingStale, OnTheWay, AnswerSound, BudgetKept
------------------------------------------------------------------------------
(* A step of the walk reads the tables and leaves them.                     *)
LEMMA StepLeaves ==
    ASSUME RecallInv, UNCHANGED <<storeVars, lived, linked, quiet>>, read' \in Reads,
           read'.kind = read.kind
    PROVE  ReadTypeOK' /\ Live' = Live /\ Seeds' = Seeds /\ links' = links
           /\ lived' = lived /\ linked' = linked /\ quiet' = quiet
           /\ (read'.step # "done" => AnswerSound' /\ BudgetKept')
<1>1. status' = status /\ links' = links /\ events' = events
  BY DEF storeVars
<1>2. Live' = Live
  BY <1>1 DEF Live
<1>3. Seeds' = Seeds
  BY <1>1, <1>2 DEF Seeds, Nearest
<1>4. read'.step # "done" => AnswerSound' /\ BudgetKept'
  BY DEF AnswerSound, BudgetKept
<1> QED
  BY <1>1, <1>2, <1>3, <1>4 DEF RecallInv, ReadTypeOK

(* The seeds are live nodes.                                                *)
LEMMA SeedKeeps ==
    ASSUME RecallInv, Seed
    PROVE  RecallInv'
<1>1. PICK S \in Seeds :
         read' = [read EXCEPT !.found = S, !.frontier = S,
                              !.step = IF read.kind = "graph" THEN "finish" ELSE "hop"]
  BY DEF Seed
<1>2. S \in SUBSET Live
  BY DEF Seeds, Nearest, RecallInv, ReadTypeOK, Reads
<1>3. Live \in SUBSET Node
  BY DEF Live
<1>4. /\ read.step = "seed" /\ UNCHANGED <<storeVars, lived, linked, quiet>>
      /\ Live \subseteq lived /\ links \subseteq linked /\ read.edges \subseteq linked
      /\ read.hop = 0
  BY DEF Seed, Goes, RecallInv, NothingStale, OnTheWay
<1>5. /\ read' \in Reads /\ read'.kind = read.kind /\ read'.found = S /\ read'.frontier = S
      /\ read'.edges = read.edges /\ read'.hop = read.hop
      /\ read'.step = (IF read.kind = "graph" THEN "finish" ELSE "hop")
  BY <1>1, <1>2, <1>3 DEF RecallInv, ReadTypeOK, Reads
<1>6. /\ ReadTypeOK' /\ AnswerSound' /\ BudgetKept' /\ Live' = Live /\ Seeds' = Seeds
      /\ links' = links /\ lived' = lived /\ linked' = linked /\ quiet' = quiet
  BY <1>4, <1>5, StepLeaves
<1>7. NothingStale'
  BY <1>2, <1>4, <1>5, <1>6 DEF NothingStale
<1>8. ASSUME read.kind # "graph"
      PROVE  Walked(S, read', links, Live)
  <2> DEFINE r == read'
  <2>1. r.step = "hop" /\ r.found = S /\ r.frontier = S
    BY <1>5, <1>8
  <2>2. Balls(S, links, Live)[0] = S
    BY <1>2, <1>3, BallsUnfold
  <2>3. r.hop = 0
    BY <1>4, <1>5
  <2>4. Settled(r, links, Live)
    BY <2>1 DEF Settled, Near
  <2> HIDE DEF r
  <2>5. Walked(S, r, links, Live)
    BY <1>2, <2>1, <2>2, <2>3, <2>4 DEF Walked
  <2> QED
    BY <2>5 DEF r
<1>9. OnTheWay'
  BY <1>5, <1>6, <1>8 DEF OnTheWay
<1> QED
  BY <1>6, <1>7, <1>9 DEF RecallInv
(* The edges of the frontier: what is fetched is next to it, and all of it  *)
(* when nothing was cut.                                                    *)
LEMMA HopEdgesKeeps ==
    ASSUME RecallInv, HopEdges
    PROVE  RecallInv'
<1>1. PICK order \in SetToSeqs(Touching(read.frontier)) :
         LET fetch == IF read.kind = "recall" THEN Fetched(order)
                      ELSE (UNION Touching(read.frontier)) \ read.found
         IN  read' = [read EXCEPT
                        !.edges = @ \cup Touching(read.frontier), !.fetch = fetch,
                        !.hop = @ + 1, !.step = IF fetch = {} THEN "finish" ELSE "nodes"]
  BY DEF HopEdges
<1> DEFINE fetch == IF read.kind = "recall" THEN Fetched(order)
                    ELSE (UNION Touching(read.frontier)) \ read.found
           around == Near(read.frontier, links)
<1>2. /\ ReadTypeOK /\ read \in Reads /\ read.step = "hop" /\ read.hop < Hops
      /\ UNCHANGED <<storeVars, lived, linked, quiet>>
      /\ Live \subseteq lived /\ links \subseteq linked /\ read.edges \subseteq linked
      /\ read.found \subseteq lived /\ read.frontier \subseteq read.found
  BY DEF HopEdges, Goes, RecallInv, NothingStale, ReadTypeOK
<1>3. /\ links \in SUBSET SUBSET Node /\ Touching(read.frontier) \subseteq links
      /\ around = UNION Touching(read.frontier) /\ around \in SUBSET Node
  BY <1>2, TouchingFinite DEF Touching
<1>4. fetch \subseteq around \ read.found
  BY <1>2, <1>3, FetchedIsNear
<1>5. ASSUME Roomy(read, links), read.kind \in {"recall", "focus"}
      PROVE  around \subseteq read.found \cup fetch
  <2>1. CASE read.kind = "recall"
    <3>1. \A n \in read.found : Cardinality({l \in links : n \in l}) <= Fanout
      BY <1>5, <2>1 DEF Roomy
    <3> QED
      BY <1>2, <2>1, <3>1, FetchedIsAll
  <2>2. CASE read.kind # "recall"
    BY <1>3, <2>2
  <2> QED
    BY <2>1, <2>2
<1>6. read' = [read EXCEPT !.edges = @ \cup Touching(read.frontier), !.fetch = fetch,
                           !.hop = @ + 1, !.step = IF fetch = {} THEN "finish" ELSE "nodes"]
  BY <1>1
<1> HIDE DEF fetch, around
<1>7. Hops \in Nat /\ read.hop \in 0..Hops /\ read.hop + 1 \in 1..Hops /\ read.hop + 1 \in 0..Hops
  BY <1>2, RecallConstants DEF Reads
<1>8. /\ read' \in Reads /\ read'.kind = read.kind /\ read'.found = read.found
      /\ read'.frontier = read.frontier /\ read'.edges = read.edges \cup Touching(read.frontier)
      /\ read'.fetch = fetch /\ read'.hop = read.hop + 1
      /\ read'.step = (IF fetch = {} THEN "finish" ELSE "nodes")
  BY <1>2, <1>3, <1>4, <1>6, <1>7 DEF Reads
<1>9. /\ ReadTypeOK' /\ AnswerSound' /\ BudgetKept' /\ Live' = Live /\ Seeds' = Seeds
      /\ links' = links /\ lived' = lived /\ linked' = linked /\ quiet' = quiet
  BY <1>2, <1>8, StepLeaves
<1>10. NothingStale'
  BY <1>2, <1>3, <1>8, <1>9 DEF NothingStale
<1>11. ASSUME quiet, read.kind \in {"recall", "focus"}
       PROVE  \E S \in Seeds : Walked(S, read', links, Live)
  <2>1. PICK S \in Seeds : Walked(S, read, links, Live)
    BY <1>2, <1>11 DEF RecallInv, OnTheWay
  <2> DEFINE ball == Balls(S, links, Live)
             i == read.hop
             r == read'
  <2>2. /\ S \in SUBSET Live /\ S \subseteq read.found /\ read.found \subseteq ball[i]
        /\ Roomy(read, links) => read.found = ball[i] /\ Settled(read, links, Live)
    BY <1>2, <2>1 DEF Walked
  <2>3. /\ ball[i] \subseteq ball[Hops]
        /\ Near(ball[i], links) \cap Live \subseteq ball[i] => ball[Hops] = ball[i]
    BY <1>7, <2>2, BallsGrow DEF Live
  <2>4. Roomy(r, links) <=> Roomy(read, links)
    BY <1>8 DEF Roomy
  <2>5. Settled(r, links, Live) <=> Settled(read, links, Live)
    BY <1>8 DEF Settled
  <2>6. ASSUME Roomy(r, links), fetch = {}
        PROVE  read.found = ball[Hops]
    <3>1. read.found = ball[i] /\ Settled(read, links, Live) /\ around \subseteq read.found
      BY <1>5, <1>11, <2>2, <2>4, <2>6
    <3>2. Near(read.found, links) \subseteq Near(read.found \ read.frontier, links) \cup around
      BY DEF Near, around
    <3>3. Near(read.found, links) \cap Live \subseteq read.found
      BY <3>1, <3>2 DEF Settled
    <3> QED
      BY <2>3, <3>1, <3>3
  <2>7. /\ r.found = read.found /\ r.fetch = fetch /\ r.frontier = read.frontier /\ r.hop = i + 1
        /\ r.hop - 1 = i /\ r.hop > 0 /\ r.step = (IF fetch = {} THEN "finish" ELSE "nodes")
    BY <1>7, <1>8
  <2>8. Roomy(read, links) => around \subseteq read.found \cup fetch
    BY <1>5, <1>11
  <2> HIDE DEF r, i, ball
  <2>9. Walked(S, r, links, Live)
    BY <1>4, <2>2, <2>3, <2>4, <2>5, <2>6, <2>7, <2>8 DEF Walked, ball, around
  <2> QED
    BY <2>9 DEF r
<1>12. OnTheWay'
  BY <1>8, <1>9, <1>11 DEF OnTheWay
<1> QED
  BY <1>9, <1>10, <1>12 DEF RecallInv

(* The next frontier: the live ones of what was fetched.                    *)
LEMMA HopNodesKeeps ==
    ASSUME RecallInv, HopNodes
    PROVE  RecallInv'
<1> DEFINE new == read.fetch \cap Live
<1>1. /\ ReadTypeOK /\ read \in Reads /\ read.step = "nodes"
      /\ UNCHANGED <<storeVars, lived, linked, quiet>>
      /\ Live \subseteq lived /\ links \subseteq linked /\ read.edges \subseteq linked
      /\ read.found \subseteq lived /\ read.frontier \subseteq read.found
      /\ read' = [read EXCEPT !.found = @ \cup new, !.frontier = new, !.fetch = {}, !.step = "hop"]
  BY DEF HopNodes, Goes, RecallInv, NothingStale, ReadTypeOK
<1>2. new \in SUBSET Node /\ new \subseteq Live /\ new \subseteq read.fetch
  BY DEF Live
<1> HIDE DEF new
<1>3. /\ read' \in Reads /\ read'.kind = read.kind /\ read'.found = read.found \cup new
      /\ read'.frontier = new /\ read'.edges = read.edges
      /\ read'.hop = read.hop /\ read'.step = "hop"
  BY <1>1, <1>2 DEF Reads
<1>4. /\ ReadTypeOK' /\ AnswerSound' /\ BudgetKept' /\ Live' = Live /\ Seeds' = Seeds
      /\ links' = links /\ lived' = lived /\ linked' = linked /\ quiet' = quiet
  BY <1>1, <1>3, StepLeaves
<1>5. NothingStale'
  BY <1>1, <1>2, <1>3, <1>4 DEF NothingStale
<1>6. ASSUME quiet, read.kind \in {"recall", "focus"}
      PROVE  \E S \in Seeds : Walked(S, read', links, Live)
  <2>1. PICK S \in Seeds : Walked(S, read, links, Live)
    BY <1>1, <1>6 DEF RecallInv, OnTheWay
  <2> DEFINE ball == Balls(S, links, Live)
             i == read.hop
             r == read'
  <2>2. /\ S \in SUBSET Live /\ S \subseteq read.found /\ i > 0 /\ read.found \subseteq ball[i-1]
        /\ read.fetch \subseteq Near(read.frontier, links)
        /\ Roomy(read, links) =>
             /\ read.found = ball[i-1] /\ Settled(read, links, Live)
             /\ Near(read.frontier, links) \subseteq read.found \cup read.fetch
    BY <1>1, <2>1 DEF Walked
  <2>3. ball[i] = ball[i-1] \cup (Near(ball[i-1], links) \cap Live)
    <3>1. i \in 1..Hops
      BY <1>1, <2>2, RecallConstants DEF Reads
    <3>2. Live \in SUBSET Node
      BY DEF Live
    <3>3. S \in SUBSET Live
      BY <2>2
    <3> QED
      BY <3>1, <3>2, <3>3, NextBall, ZenonT(60)
  <2>4. r.found = read.found \cup new /\ r.frontier = new /\ r.hop = i /\ r.step = "hop" /\ r.kind = read.kind
    BY <1>3
  <2> HIDE DEF r, i, ball
  <2>5. r.found \subseteq ball[i]
    <3>1. Near(read.frontier, links) \subseteq Near(ball[i-1], links)
      BY <1>1, <2>2 DEF Near
    <3> QED
      BY <1>2, <2>2, <2>3, <2>4, <3>1
  <2>6. ASSUME Roomy(r, links)
        PROVE  r.found = ball[i] /\ Settled(r, links, Live)
    <3>1. Roomy(read, links)
      BY <2>4, <2>6 DEF Roomy
    <3>2. Near(read.found, links) \cap Live \subseteq r.found
      <4>1. Near(read.found, links) \subseteq
              Near(read.found \ read.frontier, links) \cup Near(read.frontier, links)
        BY DEF Near
      <4>2. Near(read.found \ read.frontier, links) \cap Live \subseteq read.found
        BY <2>2, <3>1 DEF Settled
      <4>3. Near(read.frontier, links) \cap Live \subseteq read.found \cup new
        BY <2>2, <3>1 DEF new
      <4> QED
        BY <2>4, <4>1, <4>2, <4>3
    <3>3. r.found = ball[i]
      BY <2>2, <2>3, <2>4, <2>5, <3>1, <3>2
    <3>4. Near(r.found \ r.frontier, links) \subseteq Near(read.found, links)
      BY <2>4 DEF Near
    <3> QED
      BY <3>2, <3>3, <3>4 DEF Settled
  <2>7. Walked(S, r, links, Live)
    BY <2>2, <2>4, <2>5, <2>6 DEF Walked, ball
  <2> QED
    BY <2>7 DEF r
<1>7. OnTheWay'
  BY <1>3, <1>4, <1>6 DEF OnTheWay
<1> QED
  BY <1>4, <1>5, <1>7 DEF RecallInv

(* The walk is over.                                                        *)
LEMMA HopsOverKeeps ==
    ASSUME RecallInv, HopsOver
    PROVE  RecallInv'
<1>1. /\ ReadTypeOK /\ read \in Reads /\ read.step = "hop" /\ (read.hop = Hops \/ read.frontier = {})
      /\ UNCHANGED <<storeVars, lived, linked, quiet>>
      /\ Live \subseteq lived /\ links \subseteq linked /\ read.edges \subseteq linked
      /\ read.found \subseteq lived /\ read.frontier \subseteq read.found
      /\ read' = [read EXCEPT !.step = "finish"]
  BY DEF HopsOver, Goes, RecallInv, NothingStale, ReadTypeOK
<1>2. /\ read' \in Reads /\ read'.kind = read.kind /\ read'.found = read.found
      /\ read'.frontier = read.frontier /\ read'.edges = read.edges /\ read'.step = "finish"
  BY <1>1 DEF Reads
<1>3. /\ ReadTypeOK' /\ AnswerSound' /\ BudgetKept' /\ Live' = Live /\ Seeds' = Seeds
      /\ links' = links /\ lived' = lived /\ linked' = linked /\ quiet' = quiet
  BY <1>1, <1>2, StepLeaves
<1>4. NothingStale'
  BY <1>1, <1>2, <1>3 DEF NothingStale
<1>5. ASSUME quiet, read.kind \in {"recall", "focus"}
      PROVE  \E S \in Seeds : Walked(S, read', links, Live)
  <2>1. PICK S \in Seeds : Walked(S, read, links, Live)
    BY <1>1, <1>5 DEF RecallInv, OnTheWay
  <2> DEFINE ball == Balls(S, links, Live)
             i == read.hop
             r == read'
  <2>2. /\ S \in SUBSET Live /\ S \subseteq read.found /\ read.found \subseteq ball[i]
        /\ Roomy(read, links) => read.found = ball[i] /\ Settled(read, links, Live)
    BY <1>1, <2>1 DEF Walked
  <2>3. /\ ball[i] \subseteq ball[Hops]
        /\ Near(ball[i], links) \cap Live \subseteq ball[i] => ball[Hops] = ball[i]
    <3>1. i \in 0..Hops
      BY <1>1 DEF Reads
    <3> QED
      BY <2>2, <3>1, BallsGrow DEF Live
  <2>4. r.found = read.found /\ r.step = "finish" /\ (Roomy(r, links) <=> Roomy(read, links))
    BY <1>2 DEF Roomy
  <2>5. ASSUME Roomy(read, links)
        PROVE  read.found = ball[Hops]
    <3>1. CASE i = Hops
      BY <2>2, <2>5, <3>1
    <3>2. CASE read.frontier = {}
      <4>1. read.found \ read.frontier = read.found
        BY <3>2
      <4>2. Near(read.found, links) \cap Live \subseteq read.found
        BY <2>2, <2>5, <4>1 DEF Settled
      <4> QED
        BY <2>2, <2>3, <2>5, <4>2
    <3> QED
      BY <1>1, <3>1, <3>2
  <2> HIDE DEF r, i, ball
  <2>6. Walked(S, r, links, Live)
    BY <2>2, <2>3, <2>4, <2>5 DEF Walked, ball
  <2> QED
    BY <2>6 DEF r
<1>6. OnTheWay'
  BY <1>2, <1>3, <1>5 DEF OnTheWay
<1> QED
  BY <1>3, <1>4, <1>6 DEF RecallInv
(* A walk does not look at the notes, nor at what has been answered.        *)
LEMMA WalkStays ==
    ASSUME NEW r, NEW q, NEW S, NEW edges, NEW live, Walked(S, r, edges, live),
           q.kind = r.kind, q.found = r.found, q.frontier = r.frontier, q.fetch = r.fetch,
           q.hop = r.hop, q.step = r.step \/ (r.step = "finish" /\ q.step = "done")
    PROVE  Walked(S, q, edges, live)
<1>1. Roomy(q, edges) <=> Roomy(r, edges)
  BY DEF Roomy
<1>2. Settled(q, edges, live) <=> Settled(r, edges, live)
  BY DEF Settled
<1> QED
  BY <1>1, <1>2 DEF Walked

(* The pending notes are counted.                                           *)
LEMMA ReadPendingKeeps ==
    ASSUME RecallInv, ReadPending
    PROVE  RecallInv'
<1> DEFINE N == {i \in DOMAIN events : events[i].pending /\ events[i].type = "note"}
<1>1. /\ ReadTypeOK /\ read \in Reads /\ read.step \in {"seed", "hop", "nodes", "finish"}
      /\ UNCHANGED <<storeVars, lived, linked, quiet>>
      /\ NothingStale /\ OnTheWay
      /\ read' = [read EXCEPT !.notes = Cardinality(N)]
  BY DEF ReadPending, RecallInv, ReadTypeOK
<1>2. Cardinality(N) \in Nat
  <2>1. IsFiniteSet(1..Len(events)) /\ N \in SUBSET (1..Len(events))
    <3>1. events \in Seq([type : EventType, pending : BOOLEAN])
      BY <1>1 DEF ReadTypeOK
    <3>2. Len(events) \in Nat /\ DOMAIN events = 1..Len(events)
      BY <3>1
    <3>3. IsFiniteSet(1..Len(events))
      BY <3>2, FS_Interval
    <3> QED
      BY <3>2, <3>3
  <2> HIDE DEF N
  <2> QED
    BY <2>1, FS_Subset, FS_CardinalityType
<1> HIDE DEF N
<1>3. /\ read' \in Reads /\ read'.kind = read.kind /\ read'.found = read.found
      /\ read'.frontier = read.frontier /\ read'.edges = read.edges /\ read'.step = read.step
      /\ read'.fetch = read.fetch /\ read'.hop = read.hop
  BY <1>1, <1>2 DEF Reads
<1>4. /\ ReadTypeOK' /\ AnswerSound' /\ BudgetKept' /\ Live' = Live /\ Seeds' = Seeds
      /\ links' = links /\ lived' = lived /\ linked' = linked /\ quiet' = quiet
  BY <1>1, <1>3, StepLeaves
<1>5. NothingStale'
  BY <1>1, <1>3, <1>4 DEF NothingStale
<1>6. \A S : Walked(S, read, links, Live) => Walked(S, read', links, Live)
  BY <1>3, WalkStays
<1>7. OnTheWay'
  BY <1>1, <1>3, <1>4, <1>6 DEF OnTheWay
<1> QED
  BY <1>4, <1>5, <1>7 DEF RecallInv

(* The answer of a recall is made of what it has read.                      *)
LEMMA AnswerRecallKeeps ==
    ASSUME RecallInv, AnswerRecall
    PROVE  RecallInv'
<1>1. /\ ReadTypeOK /\ read.step = "finish" /\ read.kind = "recall"
      /\ UNCHANGED <<storeVars, lived, linked, quiet>> /\ NothingStale /\ OnTheWay
  BY DEF AnswerRecall, Goes, RecallInv
<1>2. /\ read' \in Reads
      /\ read'.step = "done" /\ read'.kind = read.kind /\ read'.found = read.found
      /\ read'.edges = read.edges /\ read'.frontier = read.frontier
      /\ read'.fetch = read.fetch /\ read'.hop = read.hop
      /\ read'.answer.nodes \subseteq read.found
      /\ read'.answer.links \subseteq read.edges
      /\ UNION read'.answer.links \subseteq read'.answer.nodes
      /\ BudgetKept'
  BY <1>1, RecallAnswers
<1>3. /\ ReadTypeOK' /\ Live' = Live /\ Seeds' = Seeds
      /\ links' = links /\ lived' = lived /\ linked' = linked /\ quiet' = quiet
  BY <1>1, <1>2, StepLeaves
<1>4. NothingStale'
  BY <1>1, <1>2, <1>3 DEF NothingStale
<1>5. \A S : Walked(S, read, links, Live) => Walked(S, read', links, Live)
  BY <1>1, <1>2, WalkStays
<1>6. OnTheWay'
  BY <1>1, <1>2, <1>3, <1>5 DEF OnTheWay
<1>7. AnswerSound'
  BY <1>1, <1>2, <1>3 DEF AnswerSound, NothingStale
<1> QED
  BY <1>2, <1>3, <1>4, <1>6, <1>7 DEF RecallInv

(* The graph reads its links last.                                          *)
LEMMA AnswerGraphKeeps ==
    ASSUME RecallInv, AnswerGraph
    PROVE  RecallInv'
<1> DEFINE answer == [NoAnswer EXCEPT !.nodes = read.found,
                                      !.links = {l \in links : l \subseteq read.found}]
<1>1. /\ ReadTypeOK /\ read \in Reads /\ read.step = "finish" /\ read.kind # "recall"
      /\ UNCHANGED <<storeVars, lived, linked, quiet>> /\ NothingStale /\ OnTheWay
      /\ read' = [read EXCEPT !.step = "done", !.answer = answer]
  BY DEF AnswerGraph, Goes, RecallInv, ReadTypeOK
<1>2. links \in SUBSET SUBSET Node /\ read.found \in SUBSET Node
  BY <1>1, TouchingFinite DEF Reads
<1>3. /\ answer \in Answer /\ answer.nodes = read.found
      /\ answer.links = {l \in links : l \subseteq read.found}
      /\ answer.lines = 0 /\ answer.notes = 0
  BY <1>2 DEF NoAnswer, Answer
<1> HIDE DEF answer
<1>4. /\ read' \in Reads /\ read'.step = "done" /\ read'.kind = read.kind /\ read'.found = read.found
      /\ read'.edges = read.edges /\ read'.frontier = read.frontier
      /\ read'.fetch = read.fetch /\ read'.hop = read.hop /\ read'.answer = answer
  BY <1>1, <1>3 DEF Reads
<1>5. /\ ReadTypeOK' /\ Live' = Live /\ Seeds' = Seeds
      /\ links' = links /\ lived' = lived /\ linked' = linked /\ quiet' = quiet
  BY <1>1, <1>4, StepLeaves
<1>6. NothingStale'
  BY <1>1, <1>4, <1>5 DEF NothingStale
<1>7. \A S : Walked(S, read, links, Live) => Walked(S, read', links, Live)
  BY <1>1, <1>4, WalkStays
<1>8. OnTheWay'
  BY <1>1, <1>4, <1>5, <1>7 DEF OnTheWay
<1>9. AnswerSound'
  BY <1>1, <1>3, <1>4, <1>5 DEF AnswerSound, NothingStale
<1>10. BudgetKept'
  BY <1>3, <1>4 DEF BudgetKept
<1> QED
  BY <1>5, <1>6, <1>8, <1>9, <1>10 DEF RecallInv

------------------------------------------------------------------------------
(* Every step keeps what the requests have read in order.                   *)
LEMMA RecallStep ==
    ASSUME RecallInv, [RNext]_rvars
    PROVE  RecallInv'
<1>1. CASE Writing
  BY <1>1, WritingKeeps
<1>2. CASE AddNote \/ Save
  <2>1. PICK types \in {<<"note">>, <<"utterance">>, <<"utterance", "tutor_explanation">>} :
          Insert(types) /\ UNCHANGED recallVars
    BY <1>2 DEF AddNote, Add, Save
  <2> DEFINE E == [type : EventType, pending : BOOLEAN]
             more == [i \in DOMAIN types |-> [type |-> types[i], pending |-> TRUE]]
  <2>2. events' = events \o more /\ events \in Seq(E) /\ UNCHANGED <<status, links>>
    BY <2>1 DEF Insert, RecallInv, ReadTypeOK
  <2>3. more \in Seq(E)
    <3>1. CASE types = <<"note">>
      <4>1. DOMAIN types = 1..1 /\ types[1] = "note"
        BY <3>1
      <4>2. more \in [1..1 -> E]
        BY <4>1 DEF EventType
      <4> QED
        BY <4>2
    <3>2. CASE types = <<"utterance">>
      <4>1. DOMAIN types = 1..1 /\ types[1] = "utterance"
        BY <3>2
      <4>2. more \in [1..1 -> E]
        BY <4>1 DEF EventType
      <4> QED
        BY <4>2
    <3>3. CASE types = <<"utterance", "tutor_explanation">>
      <4>1. DOMAIN types = 1..2 /\ types[1] = "utterance" /\ types[2] = "tutor_explanation"
        BY <3>3
      <4>2. more \in [1..2 -> E]
        BY <4>1 DEF EventType
      <4> QED
        BY <4>2
    <3> QED
      BY <3>1, <3>2, <3>3
  <2> HIDE DEF E, more
  <2>4. events' \in Seq(E)
    BY <2>2, <2>3
  <2> QED
    BY <2>1, <2>2, <2>4, ReadKept DEF E
<1>3. CASE Feed \/ UNCHANGED rvars \/ (Chat /\ (Delta \/ Finished))
  <2>1. UNCHANGED <<status, links, events, recallVars>>
    BY <1>3 DEF Feed, rvars, storeVars, Delta, Finished
  <2> QED
    BY <2>1, ReadKept DEF RecallInv, ReadTypeOK
<1>4. CASE Ask \/ TurnBegins
  BY <1>4, BeginKeeps DEF Ask, TurnBegins
<1>5. CASE Reading
  BY <1>5, SeedKeeps, HopEdgesKeeps, HopNodesKeeps, HopsOverKeeps, ReadPendingKeeps,
     AnswerRecallKeeps, AnswerGraphKeeps DEF Reading, ReadStep
<1>6. CASE Answered \/ Context \/ TurnFails
  BY <1>6, OverKeeps DEF Answered, Context, TurnFails, Reply
<1> QED
  BY <1>1, <1>2, <1>3, <1>4, <1>5, <1>6 DEF RNext, Chat

(* The readers' invariant holds whatever the writers commit (Recall.run,    *)
(* build_graph, events_stream).                                             *)
THEOREM ReadersStaySound == RSpec => []ReadersInv
<1>1. RInit => ReadersInv
  BY FeedStarts, ReadStarts DEF ReadersInv
<1>2. ReadersInv /\ [RNext]_rvars => ReadersInv'
  <2> SUFFICES ASSUME ReadersInv, [RNext]_rvars
               PROVE  ReadersInv'
    OBVIOUS
  <2>1. RecallInv'
    BY RecallStep DEF ReadersInv
  <2>2. LatestOpen' /\ FeedInOrder'
    BY FeedStep DEF ReadersInv, RecallInv
  <2> QED
    BY <2>1, <2>2 DEF ReadersInv
<1> QED
  BY <1>1, <1>2, PTL DEF RSpec

(* What a request answers with lived while it ran, and without writes it is *)
(* the live neighbourhood of its seeds (_expand, _neighborhood).            *)
THEOREM RecallIsSound == RSpec => []RecallSound
<1>1. ReadersInv => RecallSound
  <2> SUFFICES ASSUME ReadersInv, read.step = "done"
               PROVE  /\ read.answer.nodes \subseteq lived /\ read.answer.links \subseteq linked
                      /\ UNION read.answer.links \subseteq read.answer.nodes
                      /\ quiet /\ read.kind \in {"recall", "focus"} =>
                           \E S \in Seeds :
                              /\ S \subseteq read.found /\ read.found \subseteq Ball(S)
                              /\ (read.kind = "focus" \/ \A n \in read.found : Degree(n) <= Fanout)
                                   => read.found = Ball(S)
                      /\ quiet /\ read.kind # "recall" =>
                           read.answer.links = {l \in links : l \subseteq read.answer.nodes}
    BY DEF RecallSound
  <2>1. /\ read.answer.nodes \subseteq lived /\ read.answer.links \subseteq linked
        /\ UNION read.answer.links \subseteq read.answer.nodes
        /\ quiet /\ read.kind # "recall" =>
             read.answer.links = {l \in links : l \subseteq read.answer.nodes}
    BY DEF ReadersInv, RecallInv, AnswerSound, NothingStale
  <2>2. ASSUME quiet, read.kind \in {"recall", "focus"}
        PROVE  \E S \in Seeds :
                 /\ S \subseteq read.found /\ read.found \subseteq Ball(S)
                 /\ (read.kind = "focus" \/ \A n \in read.found : Degree(n) <= Fanout)
                      => read.found = Ball(S)
    <3>1. PICK S \in Seeds : Walked(S, read, links, Live)
      BY <2>2 DEF ReadersInv, RecallInv, OnTheWay
    <3>2. /\ S \subseteq read.found /\ read.found \subseteq Ball(S)
          /\ Roomy(read, links) => read.found = Ball(S)
      BY <3>1 DEF Walked, Ball
    <3>3. (read.kind = "focus" \/ \A n \in read.found : Degree(n) <= Fanout) => Roomy(read, links)
      BY DEF Roomy, Degree
    <3> QED
      BY <3>2, <3>3
  <2> QED
    BY <2>1, <2>2
<1> QED
  BY <1>1, ReadersStaySound, PTL

(* A tutor's text is within its budget but for its newlines (_fill,         *)
(* _session_buffer_block).                                                  *)
THEOREM BudgetIsKept == RSpec => []BudgetKept
<1>1. ReadersInv => BudgetKept
  BY DEF ReadersInv, RecallInv
<1> QED
  BY <1>1, ReadersStaySound, PTL

(* The feed loses no row but behind a full page that ends in the middle of  *)
(* its transaction, and sends none twice (events_stream, get_audit).        *)
THEOREM FeedIsComplete == RSpec => []FeedLosesOnlySplitPages
<1>1. ReadersInv => FeedLosesOnlySplitPages
  BY DEF ReadersInv, FeedInOrder, FeedLosesOnlySplitPages, Times
<1> QED
  BY <1>1, ReadersStaySound, PTL
==============================================================================
