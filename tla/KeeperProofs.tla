----------------------------- MODULE KeeperProofs -----------------------------
(***************************************************************************)
(* Two layers.  The consolidation protocol: type correctness, mutual       *)
(* exclusion and exactly-once consolidation, for any number of events,     *)
(* learners, colliding lock keys and calls, and the refinement of module   *)
(* EventLedger.  The graph of a learner on top of it: it stays well formed *)
(* under consolidations, merge sweeps, curriculum seeds, failures and      *)
(* crashes, for any sets of nodes, labels, events and calls.               *)
(***************************************************************************)
EXTENDS Keeper, Recursion

(* Mutual exclusion as the lock table records it: a running call holds the  *)
(* lock of its learner's key.                                               *)
RunnersHoldLock == \A c \in Call : pc[c] # "idle" => lock[KeyHeldBy(c)] = c

(* A call that has read and not yet committed still has a batch of pending  *)
(* events of its own learner: nobody consolidated them meanwhile.           *)
BatchStillPending ==
    \A c \in Call : pc[c] \in Reading =>
        /\ batch[c] # {}
        /\ batch[c] \subseteq Pending(learner[c])

(* The strengthening that every step preserves.                             *)
IInv == /\ TypeOK
        /\ RunnersHoldLock
        /\ BatchStillPending
        /\ ExactlyOnce

------------------------------------------------------------------------------
(* No call has a batch, a lock or a report yet.                             *)
LEMMA InitIInv == Init => IInv
  BY ConsolidationAssumption
  DEF Init, IInv, TypeOK, RunnersHoldLock, BatchStillPending, ExactlyOnce, PC, Report, Reading

(* Type correctness needs the batch to be pending: stamped stays in stored. *)
LEMMA TypeStep ==
    ASSUME IInv, [Next]_vars
    PROVE  TypeOK'
<1> USE ConsolidationAssumption
<1> TypeOK /\ BatchStillPending
  BY DEF IInv
<1>1. ASSUME NEW S \in SUBSET Event, Ingest(S)
      PROVE  TypeOK'
  BY <1>1 DEF TypeOK, Ingest
<1>2. ASSUME NEW c \in Call, NEW l \in Learner,
             Begin(c, l) \/ BeginRepair(c, l) \/ Skip(c, l)
      PROVE  TypeOK'
  BY <1>2 DEF TypeOK, Begin, BeginRepair, TryLock, Skip, queueVars, PC, Report
<1>3. ASSUME NEW c \in Call, ReadPending(c)
      PROVE  TypeOK'
  <2>1. Pending(learner[c]) \in SUBSET Event
    BY DEF Pending, TypeOK
  <2> QED
    BY <1>3, <2>1 DEF TypeOK, ReadPending, queueVars, PC, Report
<1>4. ASSUME NEW c \in Call, BadExtraction(c) \/ PlanReady(c)
      PROVE  TypeOK'
  BY <1>4 DEF TypeOK, BadExtraction, PlanReady, queueVars, callVars, PC
<1>5. ASSUME NEW c \in Call, AuditFailure(c) \/ SweepDone(c) \/ Abort(c)
      PROVE  TypeOK'
  BY <1>5 DEF TypeOK, AuditFailure, SweepDone, Abort, queueVars, PC, Report
<1>6. ASSUME NEW c \in Call, Release(c) \/ Crash(c)
      PROVE  TypeOK'
  BY <1>6 DEF TypeOK, Release, Crash, FreeLock, queueVars, PC, Report
<1>7. ASSUME NEW c \in Call, Commit(c)
      PROVE  TypeOK'
  <2>1. batch[c] \subseteq stored
    BY <1>7 DEF Commit, BatchStillPending, Reading, Pending
  <2> QED
    BY <1>7, <2>1 DEF TypeOK, Commit, PC, Report
<1>8. CASE UNCHANGED vars
  BY <1>8 DEF TypeOK, vars
<1> QED
  BY <1>1, <1>2, <1>3, <1>4, <1>5, <1>6, <1>7, <1>8 DEF Next, Proceed

(* The advisory lock: only an idle call acquires, only the holder frees.    *)
LEMMA LockStep ==
    ASSUME IInv, [Next]_vars
    PROVE  RunnersHoldLock'
<1> USE ConsolidationAssumption DEF RunnersHoldLock, KeyHeldBy
<1> TypeOK /\ RunnersHoldLock
  BY DEF IInv
<1>1. ASSUME NEW S \in SUBSET Event, Ingest(S)
      PROVE  RunnersHoldLock'
  BY <1>1 DEF Ingest
<1>2. ASSUME NEW c \in Call, NEW l \in Learner, Begin(c, l) \/ BeginRepair(c, l)
      PROVE  RunnersHoldLock'
  <2>1. PICK next \in PC : TryLock(c, l, next)
    BY <1>2 DEF Begin, BeginRepair, PC
  <2> QED
    BY <2>1 DEF TypeOK, TryLock
<1>3. ASSUME NEW c \in Call, NEW l \in Learner, Skip(c, l)
      PROVE  RunnersHoldLock'
  BY <1>3 DEF TypeOK, Skip
<1>4. ASSUME NEW c \in Call, ReadPending(c)
      PROVE  RunnersHoldLock'
  BY <1>4 DEF TypeOK, ReadPending
<1>5. ASSUME NEW c \in Call, BadExtraction(c) \/ PlanReady(c)
      PROVE  RunnersHoldLock'
  BY <1>5 DEF TypeOK, BadExtraction, PlanReady, callVars
<1>6. ASSUME NEW c \in Call, Commit(c) \/ AuditFailure(c) \/ SweepDone(c) \/ Abort(c)
      PROVE  RunnersHoldLock'
  BY <1>6 DEF TypeOK, Commit, AuditFailure, SweepDone, Abort
<1>7. ASSUME NEW c \in Call, Release(c) \/ Crash(c)
      PROVE  RunnersHoldLock'
  BY <1>7 DEF TypeOK, Release, Crash, FreeLock
<1>8. CASE UNCHANGED vars
  BY <1>8 DEF vars
<1> QED
  BY <1>1, <1>2, <1>3, <1>4, <1>5, <1>6, <1>7, <1>8 DEF Next, Proceed

(* Two calls that run for one learner would both hold the lock of its key.  *)
LEMMA BatchesDisjoint ==
    ASSUME IInv, NEW c \in Call, NEW d \in Call, c # d,
           pc[c] \in Reading, pc[d] \in Reading
    PROVE  batch[c] \cap batch[d] = {}
<1>1. learner[c] # learner[d]
  BY DEF IInv, RunnersHoldLock, KeyHeldBy, Reading
<1> QED
  BY <1>1 DEF IInv, BatchStillPending, Pending

(* While a call holds its key's lock nobody else stamps its learner's       *)
(* events (consolidation_lock).                                             *)
LEMMA BatchStep ==
    ASSUME IInv, [Next]_vars
    PROVE  BatchStillPending'
<1> USE DEF BatchStillPending, Pending, Reading
<1> TypeOK /\ BatchStillPending
  BY DEF IInv
<1>1. ASSUME NEW S \in SUBSET Event, Ingest(S)
      PROVE  BatchStillPending'
  BY <1>1 DEF Ingest
<1>2. ASSUME NEW c \in Call, NEW l \in Learner, Begin(c, l) \/ BeginRepair(c, l)
      PROVE  BatchStillPending'
  BY <1>2 DEF TypeOK, Begin, BeginRepair, TryLock, queueVars
<1>3. ASSUME NEW c \in Call, NEW l \in Learner, Skip(c, l)
      PROVE  BatchStillPending'
  BY <1>3 DEF TypeOK, Skip, queueVars
<1>4. ASSUME NEW c \in Call, ReadPending(c)
      PROVE  BatchStillPending'
  BY <1>4 DEF TypeOK, ReadPending, queueVars
<1>5. ASSUME NEW c \in Call, BadExtraction(c) \/ PlanReady(c)
      PROVE  BatchStillPending'
  BY <1>5 DEF TypeOK, BadExtraction, PlanReady, queueVars, callVars
<1>6. ASSUME NEW c \in Call, AuditFailure(c) \/ SweepDone(c) \/ Abort(c)
      PROVE  BatchStillPending'
  BY <1>6 DEF TypeOK, AuditFailure, SweepDone, Abort, queueVars
<1>7. ASSUME NEW c \in Call, Release(c) \/ Crash(c)
      PROVE  BatchStillPending'
  BY <1>7 DEF TypeOK, Release, Crash, queueVars
<1>8. ASSUME NEW c \in Call, Commit(c)
      PROVE  BatchStillPending'
  <2>1. ASSUME NEW d \in Call, (pc[d] \in Reading)'
        PROVE  /\ (batch[d] # {})'
               /\ (batch[d] \subseteq Pending(learner[d]))'
    <3>1. c # d /\ pc[c] \in Reading /\ pc[d] \in Reading
      BY <1>8, <2>1 DEF TypeOK, Commit
    <3>2. batch[c] \cap batch[d] = {}
      BY <3>1, BatchesDisjoint
    <3> QED
      BY <1>8, <3>1, <3>2 DEF Commit
  <2> QED
    BY <2>1
<1>9. CASE UNCHANGED vars
  BY <1>9 DEF vars
<1> QED
  BY <1>1, <1>2, <1>3, <1>4, <1>5, <1>6, <1>7, <1>8, <1>9 DEF Next, Proceed

(* Steps other than Ingest and Commit leave the event table alone.          *)
LEMMA QueueStep ==
    ASSUME [Next]_vars
    PROVE  \/ \E S \in SUBSET Event : Ingest(S)
           \/ \E c \in Call : Commit(c)
           \/ UNCHANGED queueVars
  BY DEF Next, vars, queueVars, Proceed, Begin, BeginRepair, TryLock, Skip, ReadPending,
         BadExtraction, PlanReady, AuditFailure, SweepDone, Abort, Release, Crash

(* A commit applies and stamps the same events (apply_consolidation).       *)
LEMMA OnceStep ==
    ASSUME IInv, [Next]_vars
    PROVE  ExactlyOnce'
<1> USE DEF ExactlyOnce
<1> TypeOK /\ BatchStillPending /\ ExactlyOnce
  BY DEF IInv
<1>1. ASSUME NEW S \in SUBSET Event, Ingest(S)
      PROVE  ExactlyOnce'
  BY <1>1 DEF Ingest
<1>2. ASSUME NEW c \in Call, Commit(c)
      PROVE  ExactlyOnce'
  <2>1. batch[c] \cap stamped = {}
    BY <1>2 DEF Commit, BatchStillPending, Reading, Pending
  <2> QED
    BY <1>2, <2>1 DEF Commit, TypeOK
<1>3. CASE UNCHANGED queueVars
  BY <1>3 DEF queueVars
<1> QED
  BY <1>1, <1>2, <1>3, QueueStep

(* No step of a call, an ingest or a crash breaks the invariant.            *)
LEMMA InvariantStep == IInv /\ [Next]_vars => IInv'
  BY TypeStep, LockStep, BatchStep, OnceStep DEF IInv

(* The inductive invariant holds in every reachable state.                  *)
THEOREM InductiveInvariant == Spec => []IInv
  BY InitIInv, InvariantStep, PTL DEF Spec

(* Type correctness of every reachable state of the consolidation control.  *)
THEOREM TypeCorrect == Spec => []TypeOK
<1>1. IInv => TypeOK
  BY DEF IInv
<1> QED
  BY <1>1, InductiveInvariant, PTL

(* keeper.py's advisory lock: no two runs overlap on one key.               *)
THEOREM LockExcludes == Spec => []OneRunPerKey
<1>1. IInv => OneRunPerKey
  BY DEF IInv, RunnersHoldLock, OneRunPerKey
<1> QED
  BY <1>1, InductiveInvariant, PTL

(* The watermark in the plan's transaction: an event's effects are applied  *)
(* exactly when it is stamped, and once.                                    *)
THEOREM ConsolidatesExactlyOnce == Spec => []ExactlyOnce
<1>1. IInv => ExactlyOnce
  BY DEF IInv
<1> QED
  BY <1>1, InductiveInvariant, PTL

------------------------------------------------------------------------------
(* A report is made by the step that enters the release; nothing the other  *)
(* calls do takes an event back out of the watermark.                       *)
LEMMA ReportStep ==
    ASSUME IInv, DoneMeansConsolidated, [Next]_vars
    PROVE  DoneMeansConsolidated'
<1> USE DEF DoneMeansConsolidated
<1> TypeOK /\ BatchStillPending
  BY DEF IInv
<1>1. ASSUME NEW S \in SUBSET Event, Ingest(S)
      PROVE  DoneMeansConsolidated'
  BY <1>1 DEF Ingest
<1>2. ASSUME NEW c \in Call, NEW l \in Learner, Begin(c, l) \/ BeginRepair(c, l)
      PROVE  DoneMeansConsolidated'
  BY <1>2 DEF TypeOK, Begin, BeginRepair, TryLock, queueVars
<1>3. ASSUME NEW c \in Call, NEW l \in Learner, Skip(c, l)
      PROVE  DoneMeansConsolidated'
  BY <1>3 DEF TypeOK, Skip, queueVars
<1>4. ASSUME NEW c \in Call, ReadPending(c)
      PROVE  DoneMeansConsolidated'
  BY <1>4 DEF TypeOK, ReadPending, queueVars
<1>5. ASSUME NEW c \in Call, BadExtraction(c) \/ PlanReady(c)
      PROVE  DoneMeansConsolidated'
  BY <1>5 DEF TypeOK, BadExtraction, PlanReady, queueVars, callVars
<1>6. ASSUME NEW c \in Call, AuditFailure(c) \/ SweepDone(c) \/ Abort(c)
      PROVE  DoneMeansConsolidated'
  BY <1>6 DEF TypeOK, AuditFailure, SweepDone, Abort, queueVars
<1>7. ASSUME NEW c \in Call, Release(c) \/ Crash(c)
      PROVE  DoneMeansConsolidated'
  BY <1>7 DEF TypeOK, Release, Crash, queueVars
<1>8. ASSUME NEW c \in Call, Commit(c)
      PROVE  DoneMeansConsolidated'
  <2>1. batch[c] # {} /\ batch[c] \subseteq Pending(learner[c])
    BY <1>8 DEF Commit, BatchStillPending, Reading
  <2> QED
    BY <1>8, <2>1 DEF TypeOK, Commit, Pending
<1>9. CASE UNCHANGED vars
  BY <1>9 DEF vars
<1> QED
  BY <1>1, <1>2, <1>3, <1>4, <1>5, <1>6, <1>7, <1>8, <1>9 DEF Next, Proceed

(* keeper.consolidate: a report of processed events is never about events   *)
(* that are still pending, or that are another learner's.                   *)
THEOREM ReportsAreTrue == Spec => []DoneMeansConsolidated
<1>1. Init => DoneMeansConsolidated
  BY DEF Init, DoneMeansConsolidated
<1> QED
  BY <1>1, ReportStep, InductiveInvariant, PTL DEF Spec

------------------------------------------------------------------------------
(* Nothing has been appended to the ledger or absorbed.                     *)
LEMMA LedgerInit == Init => Ledger!Init
  BY DEF Init, Ledger!Init

(* A commit absorbs its batch, an ingest appends, everything else stutters. *)
LEMMA LedgerStep ==
    ASSUME IInv, [Next]_vars
    PROVE  [Ledger!Next]_(Ledger!vars)
<1> TypeOK /\ BatchStillPending
  BY DEF IInv
<1>1. ASSUME NEW S \in SUBSET Event, Ingest(S)
      PROVE  Ledger!Append(S)
  BY <1>1 DEF Ingest, Ledger!Append, TypeOK
<1>2. ASSUME NEW c \in Call, Commit(c)
      PROVE  Ledger!Absorb(learner[c], batch[c])
  <2>1. batch[c] \subseteq Pending(learner[c])
    BY <1>2 DEF Commit, BatchStillPending, Reading
  <2> QED
    BY <1>2, <2>1 DEF Commit, Ledger!Absorb, Pending, TypeOK
<1>3. CASE UNCHANGED queueVars
  BY <1>3 DEF queueVars, Ledger!vars
<1>4. ASSUME NEW c \in Call
      PROVE  learner[c] \in Learner /\ batch[c] \in SUBSET Event
  BY DEF TypeOK
<1> QED
  BY <1>1, <1>2, <1>3, <1>4, QueueStep DEF Ledger!Next

(* Lock, retries, failures and crashes implement the ledger: every event is *)
(* appended once and absorbed at most once, by its own learner.             *)
THEOREM ImplementsLedger == Spec => LedgerSpec
<1>1. IInv /\ [Next]_vars => [Ledger!Next]_(Ledger!vars)
  BY LedgerStep
<1> QED
  BY <1>1, LedgerInit, InductiveInvariant, PTL DEF Spec, LedgerSpec, Ledger!Spec

------------------------------------------------------------------------------
(* Nodes a plan knows: those of its snapshot, and the tmp nodes it made.    *)
PlanNodes(c) == {n \in NodeId : plan[c].work[n].status # "absent"}

(* The curriculum is never forgotten, and never merged.                     *)
OntologyLives ==
    \A o \in OntId :
        /\ nodes[o].status \in {"absent", "live"}
        /\ curText[o] # NoSeed => nodes[o].status = "live"

(* An event has at most one row of evidence, and only once it is stamped.   *)
EvidenceKnown ==
    \A r \in evidence : r[1] \in stamped /\ \A s \in evidence : r[1] = s[1] => r = s

(* A plan in memory belongs to a run that has read a batch, and starts      *)
(* from nothing.                                                            *)
PlansRun ==
    \A c \in Call :
        /\ plan[c].stage # "none" => pc[c] \in Reading
        /\ plan[c].stage = "none" => /\ plan[c].todo = {} /\ plan[c].touched = {}
                                     /\ plan[c].evidence = {}
        /\ pc[c] = "planned" => plan[c].stage = "relating"

(* The snapshot is still what is stored: no other run has written since,    *)
(* and a seed touches no node of the Keeper's own.  Only decay, the last    *)
(* step of the plan, forgets.                                               *)
SnapshotHolds(c) ==
    /\ \A n \in PlanNodes(c) :
         /\ nodes[n].status = "live" \/ (n \in DynId /\ nodes[n].status = "absent")
         /\ n \in DynId /\ nodes[n].status = "live" => nodes[n].vec = plan[c].work[n].vec
         /\ n \in OntId => plan[c].work[n].status = "live"
    /\ Live(nodes) \cap DynId \subseteq PlanNodes(c)
    /\ pc[c] # "planned" => PlanNodes(c) \subseteq Working(c)

(* Candidates of the curriculum and touched nodes are live in the plan.     *)
TargetsLive(c) ==
    /\ plan[c].todo \cap OntId \subseteq Working(c)
    /\ plan[c].touched \subseteq Working(c)

(* Evidence to insert: one row per event of the batch, about touched nodes. *)
EvidencePlanned(c) ==
    /\ \A r \in plan[c].evidence : r[1] \in batch[c] /\ r[2] \in plan[c].touched
    /\ \A r, s \in plan[c].evidence : r[1] = s[1] => r = s

(* No pair of duplicates in the plan that is not one in the tables.         *)
NoNewTwins(c) == DupPairs(plan[c].work) \subseteq DupPairs(nodes)

(* The edges the plan starts from: all that touch a node of the Keeper's    *)
(* own that the plan knows.                                                 *)
EdgesRead(c) ==
    plan[c].stage = "relating" =>
        /\ plan[c].known \subseteq Edge /\ WellFormed(plan[c].known)
        /\ \A e \in edges : Pair(e) \cap PlanNodes(c) \cap DynId # {} => e \in plan[c].known

(* What an edge of the plan adds: it joins two nodes of the Keeper's own,   *)
(* and is stronger than the one its pair has.                               *)
EdgesPlanned(c) ==
    pc[c] = "planned" =>
        /\ plan[c].edges \subseteq Edge /\ WellFormed(plan[c].edges)
        /\ \A e \in plan[c].edges \ plan[c].known :
             /\ Pair(e) \subseteq PlanNodes(c) \cap DynId
             /\ \A k \in On(plan[c].known, e) : Rank[e.type] > Rank[k.type]

Sound(c) ==
    /\ SnapshotHolds(c) /\ TargetsLive(c) /\ EvidencePlanned(c)
    /\ NoNewTwins(c) /\ EdgesRead(c) /\ EdgesPlanned(c)

PlansSound == \A c \in Call : plan[c].stage # "none" => Sound(c)

(* A repair begins with no pair rejected; the pairs it has rejected differ  *)
(* in their vectors whatever their labels have become since.                *)
RejectedInDoubt ==
    \A c \in Call :
        /\ pc[c] = "idle" => plan[c].rejected = {}
        /\ pc[c] = "sweeping" => \A p \in plan[c].rejected : Doubtful(nodes, p)

KInv == /\ IInv /\ GraphTypeOK
        /\ EdgesWellFormed /\ RetiredIsBare /\ OntologyLives /\ EvidenceKnown
        /\ PlansRun /\ PlansSound /\ RejectedInDoubt /\ SweepLeavesOnlyDoubts

------------------------------------------------------------------------------
(* Edges.                                                                   *)

(* Ranks can be compared.                                                   *)
LEMMA RankType == \A t \in EdgeType : Rank[t] \in Nat
  BY DEF EdgeType, Rank

(* The reconciled set has one edge per pair, at least as strong as the one  *)
(* known, and adds only proposals that are stronger.                        *)
LEMMA Reconciles ==
    ASSUME NEW known, known \subseteq Edge, WellFormed(known),
           NEW relations \in Seq(Edge)
    PROVE  /\ Reconcile(known, relations) \subseteq Edge
           /\ WellFormed(Reconcile(known, relations))
           /\ \A e \in Reconcile(known, relations) \ known :
                /\ \E i \in DOMAIN relations : e = relations[i]
                /\ \A k \in On(known, e) : Rank[e.type] > Rank[k.type]
<1> DEFINE real == {i \in DOMAIN relations : relations[i].src # relations[i].dst}
           Above(e, f) == Pair(e) = Pair(f) /\ Rank[e.type] > Rank[f.type]
           old == {k \in known : \A i \in real : ~Above(relations[i], k)}
           first == {i \in real :
                /\ \A k \in known : Pair(k) = Pair(relations[i]) => Above(relations[i], k)
                /\ \A j \in real : /\ ~Above(relations[j], relations[i])
                                   /\ j < i => \/ Pair(relations[j]) # Pair(relations[i])
                                               \/ Above(relations[i], relations[j])}
           new == {relations[i] : i \in first}
<1>1. Reconcile(known, relations) = old \cup new
  BY DEF Reconcile
<1>2. \A i \in DOMAIN relations : relations[i] \in Edge /\ i \in Int
  OBVIOUS
<1>3. \A e \in new : e \in Edge /\ \E i \in DOMAIN relations : e = relations[i]
  BY <1>2
<1>4. ASSUME NEW e \in new, NEW k \in known, Pair(k) = Pair(e)
      PROVE  Rank[e.type] > Rank[k.type] /\ k \notin old
  BY <1>4
<1>5. ASSUME NEW e \in new, NEW f \in new, Pair(e) = Pair(f)
      PROVE  e = f
  <2>1. PICK i \in first, j \in first : e = relations[i] /\ f = relations[j]
    OBVIOUS
  <2>2. i = j
    BY <1>2, <1>5, <2>1
  <2> QED
    BY <2>1, <2>2
<1>6. \A e \in new : e.src # e.dst
  OBVIOUS
<1> HIDE DEF real, first, Above, new
<1>7. WellFormed(old \cup new)
  BY <1>4, <1>5, <1>6 DEF WellFormed
<1> QED
  BY <1>1, <1>3, <1>4, <1>7 DEF On

(* A pair known or proposed has an edge at least as strong.                 *)
AllJoined(S, known, relations) ==
    \A x \in Edge :
        \/ x \in known
        \/ \E i \in DOMAIN relations : x = relations[i] /\ x.src # x.dst
        => \E e \in S : Pair(e) = Pair(x) /\ Rank[e.type] >= Rank[x.type]

(* A longer list of relations begins with the same ones.                    *)
LEMMA Appended ==
    ASSUME NEW S, NEW s \in Seq(S), NEW r \in S
    PROVE  LET t == Append(s, r)
               m == Len(s) + 1
           IN  /\ t \in Seq(S) /\ Len(s) \in Nat /\ DOMAIN s = 1..Len(s)
               /\ DOMAIN t = 1..m /\ t[m] = r
               /\ \A i \in 1..Len(s) : t[i] = s[i]
  OBVIOUS

(* One turn of the loop is a proposal to what the relations before it left. *)
LEMMA OneMore ==
    ASSUME NEW known, known \subseteq Edge, WellFormed(known),
           NEW s \in Seq(Edge), NEW r \in Edge, r.src # r.dst,
           AllJoined(Reconcile(known, s), known, s)
    PROVE  Reconcile(known, Append(s, r)) = Propose(Reconcile(known, s), r)
<1> DEFINE t == Append(s, r)
           m == Len(s) + 1
           Above(e, f) == Pair(e) = Pair(f) /\ Rank[e.type] > Rank[f.type]
           Real(q) == {i \in DOMAIN q : q[i].src # q[i].dst}
           Old(q) == {k \in known : \A i \in Real(q) : ~Above(q[i], k)}
           First(q) == {i \in Real(q) :
                /\ \A k \in known : Pair(k) = Pair(q[i]) => Above(q[i], k)
                /\ \A j \in Real(q) : /\ ~Above(q[j], q[i])
                                      /\ j < i => \/ Pair(q[j]) # Pair(q[i])
                                                  \/ Above(q[i], q[j])}
           New(q) == {q[i] : i \in First(q)}
           C == Reconcile(known, s)
<1>1. /\ Len(s) \in Nat /\ DOMAIN s = 1..Len(s) /\ DOMAIN t = 1..m /\ t[m] = r
      /\ \A i \in 1..Len(s) : t[i] = s[i] /\ i # m /\ i < m /\ ~(m < i)
      /\ \A i \in 1..m : i = m \/ i \in 1..Len(s)
      /\ m \in 1..m /\ ~(m < m)
  <2>1. /\ Len(s) \in Nat /\ DOMAIN s = 1..Len(s) /\ DOMAIN t = 1..m /\ t[m] = r
        /\ \A i \in 1..Len(s) : t[i] = s[i]
    BY Appended
  <2>2. \A i \in 1..Len(s) : i # m /\ i < m /\ ~(m < i)
    BY <2>1
  <2>3. \A i \in 1..m : i = m \/ i \in 1..Len(s)
    BY <2>1
  <2> QED
    BY <2>1, <2>2, <2>3
<1>2. C = Old(s) \cup New(s) /\ Reconcile(known, t) = Old(t) \cup New(t)
  BY DEF Reconcile
<1>3. C \subseteq Edge /\ WellFormed(C)
  BY Reconciles
<1>4. \A x \in Edge : Rank[x.type] \in Nat
  BY RankType DEF Edge
<1>5. \A i \in 1..Len(s) : s[i] \in Edge
  BY <1>1
<1> HIDE DEF t, m
<1>6. Real(t) = Real(s) \cup {m}
  BY <1>1
<1>7. \A i \in Real(s) : i \in 1..Len(s) /\ t[i] = s[i] /\ s[i] \in Edge
  BY <1>1, <1>5
<1>8. \A k : k \in Old(t) <=> k \in Old(s) /\ ~Above(r, k)
  BY <1>1, <1>6, <1>7
<1>9. \A i \in Real(s) : i \in First(t) <=> i \in First(s) /\ ~Above(r, s[i])
  BY <1>1, <1>6, <1>7
<1>10. m \in First(t) <=>
          /\ \A k \in known : Pair(k) = Pair(r) => Above(r, k)
          /\ \A j \in Real(s) : Pair(s[j]) = Pair(r) => Above(r, s[j])
  <2>1. Real(s) \subseteq Real(t) /\ m \in Real(t)
    BY <1>6
  <2>2. \A j \in Real(s) : Above(r, s[j]) => ~Above(s[j], r)
    BY <1>4, <1>7
  <2>3. ~Above(r, r)
    BY <1>4
  <2> QED
    BY <1>1, <1>6, <1>7, <2>1, <2>2, <2>3
<1> HIDE DEF Above, Real, Old, First, C
<1>11. \A x : x \in Reconcile(known, t) <=>
          \/ x \in C /\ ~Above(r, x)
          \/ x = r /\ m \in First(t)
  <2>1. \A x : x \in New(s) <=> \E i \in First(s) : x = s[i]
    OBVIOUS
  <2>2. \A x : x \in New(t) <=> \E i \in First(t) : x = t[i]
    OBVIOUS
  <2>3. First(s) \subseteq Real(s) /\ First(t) \subseteq Real(s) \cup {m}
    BY <1>6 DEF First
  <2> HIDE DEF New
  <2>4. \A x : x \in New(t) <=> (x \in New(s) /\ ~Above(r, x)) \/ (x = r /\ m \in First(t))
    BY <1>1, <1>6, <1>7, <1>9, <2>1, <2>2, <2>3
  <2> QED
    BY <1>2, <1>8, <2>4
<1>12. \A e \in C : \/ e \in known /\ \A i \in Real(s) : ~Above(s[i], e)
                    \/ \E i \in Real(s) :
                         /\ e = s[i]
                         /\ \A k \in known : Pair(k) = Pair(e) => Above(e, k)
                         /\ \A j \in Real(s) : ~Above(s[j], e)
  BY <1>2 DEF Old, First
<1>13. CASE \A e \in C : Pair(e) # Pair(r)
  <2>1. \A x \in Edge : x \in known \/ (\E i \in Real(s) : x = s[i]) => Pair(x) # Pair(r)
    <3>1. \A x \in Edge : x \in known \/ (\E i \in Real(s) : x = s[i])
             => \E e \in C : Pair(e) = Pair(x)
      BY <1>7 DEF AllJoined, C, Real
    <3> QED
      BY <1>13, <3>1
  <2>2. m \in First(t)
    BY <1>7, <1>10, <2>1
  <2>3. \A x \in C : ~Above(r, x)
    BY <1>13 DEF Above
  <2>4. Propose(C, r) = C \cup {r}
    BY <1>13 DEF Propose
  <2> QED
    BY <1>11, <2>2, <2>3, <2>4 DEF C, t
<1>14. ASSUME NEW e \in C, Pair(e) = Pair(r)
       PROVE  Reconcile(known, t) = Propose(C, r)
  <2>1. \A f \in C : Pair(f) = Pair(r) => f = e
    BY <1>3, <1>14 DEF WellFormed
  <2>2. \A x : x \in Propose(C, r) <=> \E f \in C : x = IF Above(r, f) THEN r ELSE f
    <3>1. Propose(C, r) = {IF Pair(f) = Pair(r) /\ Rank[r.type] > Rank[f.type] THEN r ELSE f : f \in C}
      BY <1>14 DEF Propose
    <3> QED
      BY <3>1 DEF Above
  <2>3. \A f \in C : Above(r, f) => f = e
    BY <2>1 DEF Above
  <2>4. CASE Above(r, e)
    <3>1. \A k \in known : Pair(k) = Pair(r) => Above(r, k)
      <4>1. \A k \in known : Pair(k) = Pair(e) => k = e \/ Above(e, k)
        BY <1>12 DEF WellFormed
      <4> QED
        BY <1>3, <1>4, <1>14, <2>4, <4>1 DEF Above
    <3>2. \A j \in Real(s) : Pair(s[j]) = Pair(r) => Above(r, s[j])
      <4>1. \A j \in Real(s) : ~Above(s[j], e)
        BY <1>12
      <4> QED
        BY <1>3, <1>4, <1>7, <1>14, <2>4, <4>1 DEF Above
    <3>3. m \in First(t)
      BY <1>10, <3>1, <3>2
    <3>4. \A x : x \in Propose(C, r) <=> x = r \/ (x \in C /\ ~Above(r, x))
      BY <1>14, <2>2, <2>4
    <3> QED
      BY <1>11, <3>3, <3>4
  <2>5. CASE ~Above(r, e)
    <3>1. m \notin First(t)
      BY <1>10, <1>12, <1>14, <2>5
    <3> QED
      BY <1>11, <2>2, <2>3, <2>5, <3>1
  <2> QED
    BY <2>4, <2>5
<1> QED
  BY <1>13, <1>14 DEF C, t

(* The loop of Keeper._reconcile_edges leaves what Reconcile says, whatever *)
(* is known and however many relations are proposed.                        *)
LEMMA Looped ==
    ASSUME NEW known, known \subseteq Edge, WellFormed(known),
           NEW relations \in Seq(Edge)
    PROVE  LET n == Len(relations) IN
           \E f \in [0..n -> SUBSET Edge] :
              /\ f[0] = known /\ ReconcileLoop(known, relations) = f[n]
              /\ \A k \in 1..n : f[k] = IF relations[k].src = relations[k].dst THEN f[k-1]
                                       ELSE Propose(f[k-1], relations[k])
<1> DEFINE n == Len(relations)
           T == SUBSET Edge
           turn == [p \in T \X (1..n) |->
                      IF relations[p[2]].src = relations[p[2]].dst THEN p[1]
                      ELSE Propose(p[1], relations[p[2]])]
           g[k \in 0..n] == IF k = 0 THEN known
                            ELSE IF relations[k].src = relations[k].dst THEN g[k-1]
                            ELSE Propose(g[k-1], relations[k])
<1>1. ReconcileLoop(known, relations) = g[n]
  BY DEF ReconcileLoop
<1>2. n \in Nat /\ \A k \in 1..n : relations[k] \in Edge
  OBVIOUS
<1>3. \A S \in T, r \in Edge : Propose(S, r) \in T
  BY DEF Propose
<1>4. known \in T
  OBVIOUS
<1> HIDE DEF T, n, g
<1>5. turn \in Steps(n, T)
  <2>1. \A p \in T \X (1..n) : p[1] \in T /\ p[2] \in 1..n
    OBVIOUS
  <2> QED
    BY <1>2, <1>3, <2>1 DEF Steps
<1>6. \A S \in T, k \in 1..n :
         turn[<<S, k>>] = IF relations[k].src = relations[k].dst THEN S
                          ELSE Propose(S, relations[k])
  OBVIOUS
<1> HIDE DEF turn
<1>7. PICK f \in [0..n -> T] : f[0] = known /\ \A k \in 1..n : f[k] = turn[<<f[k-1], k>>]
  <2>1. Runs(n, T, known, turn) # {}
    BY <1>2, <1>4, <1>5, RecursionExists
  <2> QED
    BY <2>1 DEF Runs
<1>8. \A k \in 1..n : f[k] = IF relations[k].src = relations[k].dst THEN f[k-1]
                             ELSE Propose(f[k-1], relations[k])
  <2> TAKE k \in 1..n
  <2>1. k-1 \in 0..n /\ f[k-1] \in T
    BY <1>2, <1>7
  <2> QED
    BY <1>6, <1>7, <2>1
<1>9. \A k \in 0..n : f[k] = IF k = 0 THEN known
                             ELSE IF relations[k].src = relations[k].dst THEN f[k-1]
                             ELSE Propose(f[k-1], relations[k])
  <2>1. \A k \in 0..n : k = 0 \/ k \in 1..n
    BY <1>2
  <2> QED
    BY <1>2, <1>7, <1>8, <2>1
<1>10. f = [k \in 0..n |-> IF k = 0 THEN known
                           ELSE IF relations[k].src = relations[k].dst THEN f[k-1]
                           ELSE Propose(f[k-1], relations[k])]
  BY <1>7, <1>9
<1>11. g = [k \in 0..n |-> IF k = 0 THEN known
                           ELSE IF relations[k].src = relations[k].dst THEN g[k-1]
                           ELSE Propose(g[k-1], relations[k])]
  BY <1>10, Zenon DEF g
<1>12. InStep(n, g, f)
  <2>1. 0 \in 0..n /\ \A k \in 1..n : k \in 0..n /\ k # 0
    BY <1>2
  <2> QED
    BY <1>7, <1>8, <1>11, <2>1, ZenonT(60) DEF InStep
<1>13. g[n] = f[n]
  <2>1. n \in 0..n
    BY <1>2
  <2> QED
    BY <1>2, <1>12, <2>1, Agree
<1> QED
  BY <1>1, <1>7, <1>8, <1>13 DEF T, n

(* A proposal covers its own pair and uncovers none.                        *)
LEMMA ProposeCovers ==
    ASSUME NEW known, known \subseteq Edge, NEW S, S \subseteq Edge,
           NEW s \in Seq(Edge), NEW r \in Edge, AllJoined(S, known, s)
    PROVE  /\ r.src # r.dst => AllJoined(Propose(S, r), known, Append(s, r))
           /\ r.src = r.dst => AllJoined(S, known, Append(s, r))
<1> DEFINE t == Append(s, r)
<1>1. \A x \in Edge : (\E i \in DOMAIN t : x = t[i] /\ x.src # x.dst)
         => x = r \/ \E i \in DOMAIN s : x = s[i] /\ x.src # x.dst
  <2>1. /\ Len(s) \in Nat /\ DOMAIN s = 1..Len(s) /\ DOMAIN t = 1..Len(s)+1
        /\ t[Len(s)+1] = r /\ \A i \in 1..Len(s) : t[i] = s[i]
    BY Appended
  <2>2. \A i \in 1..Len(s)+1 : i = Len(s)+1 \/ i \in 1..Len(s)
    BY <2>1
  <2> HIDE DEF t
  <2> QED
    BY <2>1, <2>2
<1>2. \A x \in Edge : Rank[x.type] \in Nat
  BY RankType DEF Edge
<1> HIDE DEF t
<1>3. CASE r.src = r.dst
  <2>1. AllJoined(S, known, t)
    BY <1>1, <1>3 DEF AllJoined
  <2> QED
    BY <1>3, <2>1 DEF t
<1>4. CASE r.src # r.dst
  <2>1. \E f \in Propose(S, r) : Pair(f) = Pair(r) /\ Rank[f.type] >= Rank[r.type]
    <3>1. CASE \E e \in S : Pair(e) = Pair(r)
      <4>1. PICK e \in S : Pair(e) = Pair(r)
        BY <3>1
      <4>2. (IF Pair(e) = Pair(r) /\ Rank[r.type] > Rank[e.type] THEN r ELSE e) \in Propose(S, r)
        BY <4>1 DEF Propose
      <4> QED
        BY <1>2, <4>1, <4>2
    <3>2. CASE ~ \E e \in S : Pair(e) = Pair(r)
      BY <1>2, <3>2 DEF Propose
    <3> QED
      BY <3>1, <3>2
  <2>2. ASSUME NEW e \in S
        PROVE  \E f \in Propose(S, r) : Pair(f) = Pair(e) /\ Rank[f.type] >= Rank[e.type]
    <3>1. CASE \E d \in S : Pair(d) = Pair(r)
      <4>1. (IF Pair(e) = Pair(r) /\ Rank[r.type] > Rank[e.type] THEN r ELSE e) \in Propose(S, r)
        BY <3>1 DEF Propose
      <4> QED
        BY <1>2, <4>1
    <3>2. CASE ~ \E d \in S : Pair(d) = Pair(r)
      BY <1>2, <3>2 DEF Propose
    <3> QED
      BY <3>1, <3>2
  <2>3. Propose(S, r) \subseteq Edge
    BY DEF Propose
  <2>4. ASSUME NEW x \in Edge,
               x \in known \/ \E i \in DOMAIN t : x = t[i] /\ x.src # x.dst
        PROVE  \E f \in Propose(S, r) : Pair(f) = Pair(x) /\ Rank[f.type] >= Rank[x.type]
    <3>1. CASE x = r
      BY <2>1, <3>1
    <3>2. CASE x # r
      <4>1. PICK e \in S : Pair(e) = Pair(x) /\ Rank[e.type] >= Rank[x.type]
        BY <1>1, <2>4, <3>2 DEF AllJoined
      <4>2. PICK f \in Propose(S, r) : Pair(f) = Pair(e) /\ Rank[f.type] >= Rank[e.type]
        BY <2>2
      <4>3. Rank[f.type] >= Rank[x.type]
        BY <1>2, <2>3, <4>1, <4>2
      <4> QED
        BY <4>1, <4>2, <4>3
    <3> QED
      BY <3>1, <3>2
  <2>5. AllJoined(Propose(S, r), known, t)
    BY <2>4 DEF AllJoined
  <2> QED
    BY <1>4, <2>5 DEF t
<1> QED
  BY <1>3, <1>4

(* A relation from a node to itself changes nothing.                        *)
LEMMA SelfLoopSkipped ==
    ASSUME NEW known, NEW s \in Seq(Edge), NEW r \in Edge, r.src = r.dst
    PROVE  Reconcile(known, Append(s, r)) = Reconcile(known, s)
<1> DEFINE t == Append(s, r)
           Real(q) == {i \in DOMAIN q : q[i].src # q[i].dst}
<1>1. /\ Len(s) \in Nat /\ DOMAIN s = 1..Len(s) /\ DOMAIN t = 1..Len(s)+1
      /\ t[Len(s)+1] = r /\ \A i \in 1..Len(s) : t[i] = s[i]
  BY Appended
<1>2. \A i \in 1..Len(s)+1 : i = Len(s)+1 \/ i \in 1..Len(s)
  BY <1>1
<1> HIDE DEF t
<1>3. Real(t) = Real(s) /\ \A i \in Real(s) : t[i] = s[i]
  BY <1>1, <1>2
<1> HIDE DEF Real
<1>4. Reconcile(known, t) = Reconcile(known, s)
  <2> DEFINE Above(e, f) == Pair(e) = Pair(f) /\ Rank[e.type] > Rank[f.type]
             Left(q) == {k \in known : \A i \in Real(q) : ~Above(q[i], k)}
                 \cup {q[i] : i \in {i \in Real(q) :
                     /\ \A k \in known : Pair(k) = Pair(q[i]) => Above(q[i], k)
                     /\ \A j \in Real(q) : /\ ~Above(q[j], q[i])
                                           /\ j < i => \/ Pair(q[j]) # Pair(q[i])
                                                       \/ Above(q[i], q[j])}}
  <2>1. Reconcile(known, t) = Left(t) /\ Reconcile(known, s) = Left(s)
    BY DEF Reconcile, Real
  <2> HIDE DEF Above
  <2>2. Left(t) = Left(s)
    BY <1>3
  <2> QED
    BY <2>1, <2>2
<1> QED
  BY <1>4 DEF t

(* What the loop of Keeper._reconcile_edges leaves is the closed form the   *)
(* steps of the Keeper use: of a known edge and any number of proposals for *)
(* its pair the highest rank, of equals the first.                          *)
THEOREM LoopIsReconcile ==
    ASSUME NEW known, known \subseteq Edge, WellFormed(known),
           NEW relations \in Seq(Edge)
    PROVE  ReconcileLoop(known, relations) = Reconcile(known, relations)
<1> DEFINE n == Len(relations)
           first(k) == SubSeq(relations, 1, k)
<1>1. n \in Nat /\ \A k \in 1..n : relations[k] \in Edge
  OBVIOUS
<1>2. PICK f \in [0..n -> SUBSET Edge] :
        /\ f[0] = known /\ ReconcileLoop(known, relations) = f[n]
        /\ \A k \in 1..n : f[k] = IF relations[k].src = relations[k].dst THEN f[k-1]
                                 ELSE Propose(f[k-1], relations[k])
  BY Looped
<1>3. first(0) = <<>> /\ first(n) = relations
  OBVIOUS
<1>4. ASSUME NEW k \in 1..n
      PROVE  first(k-1) \in Seq(Edge) /\ first(k) = Append(first(k-1), relations[k])
  OBVIOUS
<1> HIDE DEF n, first
<1> DEFINE G == {k \in 0..n : f[k] = Reconcile(known, first(k)) /\ AllJoined(f[k], known, first(k))}
<1>5. 0 \in G
  <2>1. Reconcile(known, <<>>) = known
    BY DEF Reconcile
  <2>2. AllJoined(known, known, <<>>)
    BY RankType DEF AllJoined, Edge
  <2> QED
    BY <1>1, <1>2, <1>3, <2>1, <2>2
<1>6. ASSUME NEW k \in 1..n, k-1 \in G
      PROVE  k \in G
  <2> DEFINE s == first(k-1)
             r == relations[k]
             C == f[k-1]
  <2>1. s \in Seq(Edge) /\ r \in Edge /\ first(k) = Append(s, r)
    BY <1>1, <1>4
  <2>2. C = Reconcile(known, s) /\ AllJoined(C, known, s)
    BY <1>6
  <2>3. C \subseteq Edge
    BY <2>1, <2>2, Reconciles
  <2>4. f[k] = IF r.src = r.dst THEN C ELSE Propose(C, r)
    BY <1>2
  <2>5. k \in 0..n
    BY <1>1
  <2> HIDE DEF s, r, C
  <2>6. CASE r.src = r.dst
    <3>1. Reconcile(known, Append(s, r)) = C
      BY <2>1, <2>2, <2>6, SelfLoopSkipped
    <3>2. AllJoined(C, known, Append(s, r))
      BY <2>1, <2>2, <2>3, <2>6, ProposeCovers
    <3> QED
      BY <2>1, <2>4, <2>5, <2>6, <3>1, <3>2
  <2>7. CASE r.src # r.dst
    <3>1. Reconcile(known, Append(s, r)) = Propose(C, r)
      BY <2>1, <2>2, <2>7, OneMore
    <3>2. AllJoined(Propose(C, r), known, Append(s, r))
      BY <2>1, <2>2, <2>3, <2>7, ProposeCovers
    <3> QED
      BY <2>1, <2>4, <2>5, <2>7, <3>1, <3>2
  <2> QED
    BY <2>6, <2>7
<1>7. n \in G
  <2>1. G \in SUBSET (0..n)
    OBVIOUS
  <2> HIDE DEF G
  <2>2. \A k \in 0..n : k \in G
    BY <1>1, <1>5, <1>6, <2>1, Induct
  <2> QED
    BY <1>1, <2>2
<1> QED
  BY <1>2, <1>3, <1>7

(* The transaction keeps one edge per pair when what it adds touches only   *)
(* pairs the plan has read, and loses no edge but to a stronger one.        *)
LEMMA Applies ==
    ASSUME NEW S, S \subseteq Edge, WellFormed(S),
           NEW known, NEW planned, planned \subseteq Edge, WellFormed(planned),
           \A e \in planned \ known, f \in S : Pair(f) = Pair(e) => f \in known,
           \A e \in planned \ known : \A k \in On(known, e) : Rank[e.type] > Rank[k.type]
    PROVE  LET T == ApplyEdges(S, known, planned)
           IN  /\ T \subseteq Edge
               /\ WellFormed(T)
               /\ \A e \in T \ S : e \in planned \ known
               /\ \A e \in S : \E f \in T : Pair(f) = Pair(e) /\ (f = e \/ Rank[f.type] > Rank[e.type])
<1> DEFINE upgraded == {e \in planned \ known : On(known, e) # {} /\ On(known, e) \subseteq S}
           new == {e \in planned : On(known, e) = {}}
           kept == {e \in S : On(upgraded, e) = {}}
<1>1. ApplyEdges(S, known, planned) = kept \cup upgraded \cup new
  BY DEF ApplyEdges
<1>2. upgraded \subseteq planned \ known /\ new \subseteq planned \ known
  BY DEF On
<1>3. \A e \in kept, f \in upgraded : Pair(e) # Pair(f)
  BY DEF On
<1>4. \A e \in S, f \in new : Pair(e) # Pair(f)
  BY <1>2 DEF On
<1>5. kept \subseteq S
  OBVIOUS
<1>6. ASSUME NEW e \in S, e \notin kept
      PROVE  \E f \in upgraded : Pair(f) = Pair(e) /\ Rank[f.type] > Rank[e.type]
  <2>1. PICK f \in upgraded : Pair(f) = Pair(e)
    BY <1>6 DEF On
  <2>2. PICK k \in On(known, f) : k \in S
    BY <2>1
  <2>3. k = e
    BY <2>1, <2>2 DEF On, WellFormed
  <2> QED
    BY <1>2, <2>1, <2>2, <2>3
<1> HIDE DEF kept, upgraded, new
<1>7. WellFormed(kept \cup upgraded \cup new)
  BY <1>2, <1>3, <1>4, <1>5 DEF WellFormed
<1> QED
  BY <1>1, <1>2, <1>5, <1>6, <1>7

(* Every edge of S but the direct one has one at least as strong in T, with *)
(* drop replaced by keep.                                                   *)
Covers(T, S, keep, drop) ==
    \A e \in S : \/ Pair(e) = {keep, drop}
                 \/ \E f \in T : /\ Pair(f) = {IF n = drop THEN keep ELSE n : n \in Pair(e)}
                                /\ Rank[f.type] >= Rank[e.type]

(* The edges after a merge: one per pair, none at the dropped node; every   *)
(* edge but the direct one is matched by one at least as strong.            *)
LEMMA Merges ==
    ASSUME NEW S, S \subseteq Edge, WellFormed(S),
           NEW keep \in NodeId, NEW drop \in NodeId, keep # drop,
           NEW tie \in {keep, drop}
    PROVE  LET T == MergeEdges(S, keep, drop, tie)
               To(n) == IF n = drop THEN keep ELSE n
           IN  /\ T \subseteq Edge
               /\ WellFormed(T)
               /\ \A e \in T : \E f \in S : e.src = To(f.src) /\ e.dst = To(f.dst)
               /\ Covers(T, S, keep, drop)
<1> DEFINE To(n) == IF n = drop THEN keep ELSE n
           pair == {keep, drop}
           K == Kept(S, pair, tie)
           T == MergeEdges(S, keep, drop, tie)
<1>0. \A e \in S : /\ e.src # e.dst /\ e.src \in NodeId /\ e.dst \in NodeId
                   /\ e.type \in EdgeType
  BY DEF WellFormed, Edge
<1>1. K \subseteq S /\ \A e \in K : Pair(e) # pair
  BY DEF Kept
<1>2. T = {Moved(e, keep, drop) : e \in K}
  BY DEF MergeEdges
<1>3. \A e \in S : /\ Moved(e, keep, drop).src = To(e.src)
                   /\ Moved(e, keep, drop).dst = To(e.dst)
                   /\ Moved(e, keep, drop).type = e.type
                   /\ Moved(e, keep, drop) \in Edge
  BY <1>0 DEF Moved, Edge
<1>4. ASSUME NEW e \in K, NEW f \in K, e # f,
             {To(e.src), To(e.dst)} = {To(f.src), To(f.dst)}
      PROVE  FALSE
  <2>1. Pair(e) # Pair(f) /\ Pair(e) # pair /\ Pair(f) # pair
    BY <1>1, <1>4 DEF WellFormed
  <2>2. Collide(e, f, pair) /\ Collide(f, e, pair)
    BY <1>0, <1>1, <1>4, <2>1 DEF Collide, Pair
  <2>3. ~Weaker(e, f, tie) /\ ~Weaker(f, e, tie)
    BY <1>1, <2>1, <2>2 DEF Kept
  <2>4. tie \in Pair(e) \/ tie \in Pair(f)
    BY <1>0, <1>1, <1>4, <2>1 DEF Pair
  <2>5. Rank[e.type] \in Nat /\ Rank[f.type] \in Nat
    BY <1>0, <1>1, RankType
  <2> QED
    BY <2>3, <2>4, <2>5 DEF Weaker
<1>5. \A e \in K : To(e.src) # To(e.dst)
  BY <1>0, <1>1 DEF Pair
<1>6. ASSUME NEW e \in S, Pair(e) # pair, e \notin K
      PROVE  \E f \in K : {To(f.src), To(f.dst)} = {To(e.src), To(e.dst)} /\ Rank[f.type] >= Rank[e.type]
  <2>1. PICK f \in S : Pair(f) # pair /\ Collide(e, f, pair) /\ Weaker(e, f, tie)
    BY <1>6 DEF Kept
  <2>2. {To(f.src), To(f.dst)} = {To(e.src), To(e.dst)}
    BY <1>0, <1>6, <2>1 DEF Collide, Pair
  <2>3. Rank[f.type] >= Rank[e.type]
    BY <1>0, <2>1, RankType DEF Weaker
  <2>4. ASSUME NEW g \in S, Pair(g) # pair, Collide(f, g, pair), Weaker(f, g, tie)
        PROVE  FALSE
    <3>1. Pair(g) = Pair(e)
      BY <1>0, <1>6, <2>1, <2>4 DEF Collide, Pair, WellFormed
    <3>2. g = e
      BY <3>1 DEF WellFormed
    <3>3. ~(tie \in Pair(e) /\ tie \in Pair(f))
      BY <1>0, <1>6, <2>1 DEF Collide, Pair, WellFormed
    <3> QED
      BY <1>0, <2>1, <2>4, <3>2, <3>3, RankType DEF Weaker
  <2>5. f \in K
    BY <2>1, <2>4 DEF Kept
  <2> QED
    BY <2>2, <2>3, <2>5
<1> HIDE DEF K, T
<1>7. T \subseteq Edge
  BY <1>1, <1>2, <1>3
<1>8. WellFormed(T)
  BY <1>1, <1>2, <1>3, <1>4, <1>5 DEF WellFormed, Pair
<1>9. \A e \in T : \E f \in S : e.src = To(f.src) /\ e.dst = To(f.dst)
  BY <1>1, <1>2, <1>3
<1>10. ASSUME NEW e \in S, Pair(e) # pair
       PROVE  \E f \in T : Pair(f) = {To(e.src), To(e.dst)} /\ Rank[f.type] >= Rank[e.type]
  <2>1. PICK f \in K : {To(f.src), To(f.dst)} = {To(e.src), To(e.dst)} /\ Rank[f.type] >= Rank[e.type]
    <3>1. CASE e \in K
      BY <1>0, <3>1, RankType
    <3> QED
      BY <1>6, <1>10, <3>1
  <2>2. Moved(f, keep, drop) \in T
    BY <1>2
  <2> QED
    BY <1>1, <1>3, <2>1, <2>2 DEF Pair
<1>11. \A e \in S : {To(n) : n \in Pair(e)} = {To(e.src), To(e.dst)}
  BY DEF Pair
<1>12. Covers(T, S, keep, drop)
  BY <1>10, <1>11 DEF Covers
<1> QED
  BY <1>7, <1>8, <1>9, <1>12 DEF T

(* A seed replaces only edges among its own concepts.                       *)
LEMMA Seeds ==
    ASSUME NEW S, S \subseteq Edge, WellFormed(S), NEW cur \in Curriculum
    PROVE  LET T == SeedEdges(S, cur)
           IN  /\ T \subseteq Edge
               /\ WellFormed(T)
               /\ \A e \in T \ S : Pair(e) \subseteq DOMAIN cur.text
               /\ \A e \in S : Pair(e) \subseteq DOMAIN cur.text \/ e \in T
<1>1. /\ cur.edges \subseteq Edge /\ WellFormed(cur.edges)
      /\ \A e \in cur.edges : Pair(e) \subseteq DOMAIN cur.text
  BY KeeperAssumption
<1> QED
  BY <1>1 DEF SeedEdges, WellFormed

------------------------------------------------------------------------------
(* Duplicates.                                                              *)

(* The nodes a and b are a pair of DupPairs.                                *)
Doubles(N, a, b) ==
    /\ a # b /\ N[a].status = "live" /\ N[b].status = "live"
    /\ Kind(N, a) = Kind(N, b)
    /\ Twins(N[a], N[b].label, N[b].vec)

(* Two graphs' duplicates compare node by node.                             *)
LEMMA DupPairsShrink ==
    ASSUME NEW N, NEW M,
           \A a, b \in DynId : Doubles(M, a, b) => Doubles(N, a, b)
    PROVE  DupPairs(M) \subseteq DupPairs(N)
<1> SUFFICES ASSUME NEW p \in DupPairs(M)
             PROVE  p \in DupPairs(N)
  OBVIOUS
<1>1. PICK a \in p, b \in p :
        /\ p = {a, b} /\ a # b /\ Kind(M, a) = Kind(M, b)
        /\ Twins(M[a], M[b].label, M[b].vec)
  BY DEF DupPairs
<1>2. p \subseteq DynId /\ p \subseteq Live(M)
  BY DEF DupPairs
<1>3. M[a].status = "live" /\ M[b].status = "live" /\ a \in NodeId /\ b \in NodeId
  BY <1>1, <1>2 DEF Live, NodeId
<1>4. Doubles(N, a, b)
  BY <1>1, <1>2, <1>3 DEF Doubles
<1>5. p \in SUBSET (Live(N) \cap DynId)
  BY <1>1, <1>2, <1>3, <1>4 DEF Doubles, Live
<1> QED
  BY <1>1, <1>4, <1>5 DEF Doubles, DupPairs

(* Rows of the Keeper's own nodes decide it.                                *)
LEMMA DupPairsSame ==
    ASSUME NEW N, NEW M, \A a \in DynId : M[a] = N[a]
    PROVE  DupPairs(M) = DupPairs(N)
<1>1. \A a, b \in DynId : Doubles(M, a, b) <=> Doubles(N, a, b)
  BY DEF Doubles, Kind
<1> QED
  BY <1>1, DupPairsShrink

(* Whether a pair is in doubt is a matter of its vectors alone.             *)
LEMMA DoubtfulSame ==
    ASSUME NEW N, NEW M, \A n \in DynId : M[n].vec = N[n].vec,
           NEW p \in SUBSET DynId, Doubtful(N, p)
    PROVE  Doubtful(M, p)
<1>1. PICK x, y \in p : /\ p = {x, y} /\ N[x].vec # N[y].vec
                        /\ Alike(N[x], N[y].vec)
                        /\ {N[x].vec, N[y].vec} \notin Twin
  BY DEF Doubtful
<1>2. M[x].vec = N[x].vec /\ M[y].vec = N[y].vec
  OBVIOUS
<1> QED
  BY <1>1, <1>2 DEF Doubtful, Alike

(* Decay keeps labels and vectors, and brings no node to life.              *)
LEMMA Ages ==
    ASSUME NEW row \in NodeRow, NEW n \in NodeId, NEW left,
           n \in DOMAIN left => left[n] \in 0..MaxSal
    PROVE  LET old == Aged(row, n, left)
           IN  /\ old \in NodeRow
               /\ old.label = row.label /\ old.vec = row.vec
               /\ old.status = "live" => row.status = "live"
               /\ old.status = "absent" <=> row.status = "absent"
               /\ row.status = "live" /\ (n \notin DOMAIN left \/ n \notin DynId)
                      => old.status = "live"
<1>1. MaxSal \in Nat
  BY KeeperAssumption
<1>2. CASE row.status = "live" /\ n \notin DOMAIN left
  BY <1>1, <1>2 DEF Aged, NodeRow, Status
<1>3. CASE row.status = "live" /\ n \in DOMAIN left
  <2> DEFINE st == IF left[n] = 0 /\ n \in DynId THEN "forgotten" ELSE "live"
  <2>1. Aged(row, n, left) = [row EXCEPT !.sal = left[n], !.status = st]
    BY <1>3 DEF Aged
  <2>2. st \in {"forgotten", "live"} /\ (n \notin DynId => st = "live")
    OBVIOUS
  <2> HIDE DEF st
  <2> QED
    BY <1>3, <2>1, <2>2 DEF NodeRow, Status
<1>4. CASE row.status # "live"
  BY <1>4 DEF Aged
<1> QED
  BY <1>2, <1>3, <1>4

------------------------------------------------------------------------------
(* The graph adds effects to the steps of Consolidation and no step to it.  *)
LEMMA KeeperStep == [KNext]_kvars => [Next]_vars
<1> SUFFICES ASSUME [KNext]_kvars PROVE [Next]_vars
  OBVIOUS
<1>1. ASSUME NEW c \in Call, Uneventful(c) \/ Leave(c)
      PROVE  Next
  BY <1>1 DEF Uneventful, Leave, Next, Proceed
<1>2. ASSUME NEW c \in Call, Snapshot(c) \/ Extracted(c) \/ Link(c) \/ ReadEdges(c)
      PROVE  UNCHANGED vars
  BY <1>2 DEF Snapshot, Extracted, Link, ReadEdges
<1>3. ASSUME NEW c \in Call, SweepMerge(c) \/ SweepReject(c)
      PROVE  UNCHANGED vars
  BY <1>3 DEF SweepMerge, SweepReject
<1>4. ASSUME NEW c \in Call, KBadExtraction(c) \/ Relate(c) \/ KCommit(c) \/ KSweepDone(c)
      PROVE  Next
  BY <1>4 DEF KBadExtraction, Relate, KCommit, KSweepDone, Next, Proceed
<1>5. SeedStart \/ SeedCommit \/ SeedFail => UNCHANGED vars
  BY DEF SeedStart, SeedCommit, SeedFail
<1>6. ASSUME NEW S \in SUBSET Event, Ingest(S)
      PROVE  Next
  BY <1>6 DEF Next
<1>7. UNCHANGED kvars => UNCHANGED vars
  BY DEF kvars
<1> QED
  BY <1>1, <1>2, <1>3, <1>4, <1>5, <1>6, <1>7 DEF KNext

(* Consolidation with its graph implements the consolidation protocol, so   *)
(* every theorem above is one about the Keeper.                             *)
THEOREM KeeperImplementsConsolidation == KSpec => Spec
<1>1. KInit => Init
  BY DEF KInit
<1> QED
  BY <1>1, KeeperStep, PTL DEF KSpec, Spec

(* The protocol's inductive invariant holds next to the graph: locks        *)
(* exclude and batches stay pending (Keeper.consolidate inside              *)
(* consolidation_lock).                                                     *)
THEOREM KeeperIInv == KSpec => []IInv
  BY KeeperImplementsConsolidation, InductiveInvariant, PTL

(* One learner, one lock: one call at a time is past it.                    *)
LEMMA Solo ==
    ASSUME IInv, NEW c \in Call, NEW d \in Call, pc[c] # "idle", pc[d] # "idle"
    PROVE  c = d
<1>1. learner[c] = learner[d]
  BY KeeperAssumption DEF IInv, TypeOK
<1> QED
  BY <1>1 DEF IInv, RunnersHoldLock, KeyHeldBy

(* So a plan in memory is the only one, and no sweep runs beside it.        *)
LEMMA OnePlan ==
    ASSUME KInv, NEW c \in Call, NEW d \in Call, plan[c].stage # "none", pc[d] # "idle"
    PROVE  c = d
  BY Solo DEF KInv, PlansRun, Reading

------------------------------------------------------------------------------
(* The row of an id no node has.                                            *)
LEMMA NoRowType == NoRow \in NodeRow /\ NoRow.status = "absent"
<1> DEFINE x == CHOOSE y \in Label : TRUE
<1>1. x \in Label /\ MaxSal \in Nat
  BY KeeperAssumption
<1>2. \A z : [Fresh(z, 0) EXCEPT !.status = "absent"]
                = [status |-> "absent", label |-> z, vec |-> z, sal |-> 0]
  BY DEF Fresh
<1>3. NoRow = [Fresh(x, 0) EXCEPT !.status = "absent"]
  BY DEF NoRow
<1> HIDE DEF x
<1>4. NoRow = [status |-> "absent", label |-> x, vec |-> x, sal |-> 0]
  BY <1>2, <1>3
<1> QED
  BY <1>1, <1>4 DEF NodeRow, Status

(* What a call without a plan holds.                                        *)
LEMMA BlankType == Blank \in Plan /\ NoRows \in [NodeId -> NodeRow]
<1>1. NoRows \in [NodeId -> NodeRow]
  BY NoRowType DEF NoRows
<1> QED
  BY <1>1 DEF Blank, Plan

(* A new or newly seeded node (Keeper._plan, apply_ontology).               *)
LEMMA FreshType ==
    ASSUME NEW x \in Label, NEW s \in 0..MaxSal
    PROVE  Fresh(x, s) \in NodeRow
  BY DEF Fresh, NodeRow, Status

(* canonical_label returns one of the two labels it compares.               *)
LEMMA CanonicalType ==
    ASSUME NEW x \in Label, NEW y \in Label
    PROVE  Canonical(x, y) \in {x, y}
  BY DEF Canonical

(* A step of one run that writes no table: what remains to be shown is what *)
(* it makes of its own plan.                                                *)
LEMMA PlanningStep ==
    ASSUME KInv, NEW c \in Call, pc[c] \notin {"idle", "releasing"}, pc'[c] # "releasing", IInv',
           UNCHANGED <<tables, seedVars, stamped, batch>>,
           pc' = [pc EXCEPT ![c] = pc'[c]],
           plan' = [plan EXCEPT ![c] = plan'[c]],
           plan'[c] \in Plan,
           plan'[c].stage # "none", pc'[c] \in Reading,
           pc'[c] = "planned" => plan'[c].stage = "relating",
           Sound(c)'
    PROVE  KInv'
<1> USE DEF KInv
<1>1. \A d \in Call : d # c => plan'[d] = plan[d] /\ pc'[d] = pc[d] /\ plan[d].stage = "none"
  BY OnePlan DEF GraphTypeOK, IInv, TypeOK
<1>2. GraphTypeOK'
  BY DEF GraphTypeOK, IInv, tables, seedVars
<1>3. EdgesWellFormed' /\ RetiredIsBare' /\ OntologyLives' /\ EvidenceKnown'
  BY DEF EdgesWellFormed, RetiredIsBare, OntologyLives, EvidenceKnown, WellFormed, tables, seedVars
<1>4. PlansRun'
  BY <1>1 DEF PlansRun
<1>5. PlansSound'
  BY <1>1 DEF PlansSound
<1>6. \A d \in Call : d # c => pc'[d] = "idle"
  BY <1>1, Solo
<1>7. SweepLeavesOnlyDoubts' /\ RejectedInDoubt'
  BY <1>1, <1>6 DEF SweepLeavesOnlyDoubts, RejectedInDoubt, Reading
<1> QED
  BY <1>2, <1>3, <1>4, <1>5, <1>7

(* A plan begins with copies of the live rows (get_live_nodes).             *)
LEMMA SnapshotStep ==
    ASSUME KInv, NEW c \in Call, Snapshot(c), IInv'
    PROVE  KInv'
<1> DEFINE w == [n \in NodeId |-> IF n \in Live(nodes) THEN nodes[n] ELSE NoRow]
           p == [plan[c] EXCEPT !.stage = "snapshot", !.work = w]
<1>0. GraphTypeOK /\ plan[c] \in Plan /\ nodes \in [NodeId -> NodeRow]
  BY DEF KInv, GraphTypeOK
<1>1. w \in [NodeId -> NodeRow]
  BY <1>0, NoRowType
<1>2. p \in Plan
  BY <1>0, <1>1 DEF Plan
<1>3. plan' = [plan EXCEPT ![c] = p]
  BY <1>0 DEF Snapshot, GraphTypeOK, Plan
<1>4. /\ plan'[c] = p /\ p.work = w /\ p.stage = "snapshot" /\ p.todo = {} /\ p.touched = {}
      /\ p.evidence = {}
  BY <1>0, <1>3 DEF GraphTypeOK, Plan, Snapshot, KInv, PlansRun
<1> HIDE DEF p
<1>5. \A n \in NodeId : n \in PlanNodes(c)' <=> n \in Live(nodes)
  BY <1>0, <1>4, NoRowType DEF PlanNodes, Live
<1>6. \A n \in Live(nodes) : w[n] = nodes[n] /\ nodes[n].status = "live" /\ n \in NodeId
  BY DEF Live
<1>7. SnapshotHolds(c)'
  <2> HIDE DEF w
  <2>1. plan'[c].work = w /\ nodes' = nodes
    BY <1>4 DEF tables, Snapshot
  <2>2. \A n \in PlanNodes(c)' : nodes[n].status = "live" /\ w[n] = nodes[n]
    BY <1>5, <1>6 DEF PlanNodes
  <2>3. Live(nodes) \cap DynId \subseteq PlanNodes(c)'
    BY <1>5 DEF Live
  <2>4. PlanNodes(c)' \subseteq Working(c)'
    BY <2>1, <2>2 DEF Working, PlanNodes, Live
  <2> QED
    BY <2>1, <2>2, <2>3, <2>4 DEF SnapshotHolds
<1>8. DupPairs(w) \subseteq DupPairs(nodes)
  <2>1. \A n \in NodeId : w[n].status = "live" => w[n] = nodes[n]
    BY NoRowType DEF Live
  <2> HIDE DEF w
  <2>2. \A a, b \in DynId : Doubles(w, a, b) => Doubles(nodes, a, b)
    BY <2>1 DEF Doubles, Kind, NodeId
  <2> QED
    BY <2>2, DupPairsShrink
<1> HIDE DEF w
<1>9. Sound(c)'
  BY <1>4, <1>7, <1>8 DEF Sound, TargetsLive, EvidencePlanned, NoNewTwins, EdgesRead, EdgesPlanned,
     Snapshot, vars, tables
<1>10. /\ pc[c] = "extracting" /\ pc' = pc /\ pc' = [pc EXCEPT ![c] = pc'[c]]
       /\ plan' = [plan EXCEPT ![c] = plan'[c]]
       /\ UNCHANGED <<tables, seedVars, stamped, batch>>
  BY <1>3, <1>4 DEF Snapshot, vars, KInv, IInv, TypeOK
<1> QED
  BY <1>2, <1>4, <1>9, <1>10, PlanningStep DEF Reading

(* A failed extraction changes no plan (Keeper._extract).                   *)
LEMMA BadExtractionStep ==
    ASSUME KInv, NEW c \in Call, KBadExtraction(c), IInv'
    PROVE  KInv'
<1>1. /\ pc[c] \in {"extracting", "repairing"} /\ pc'[c] \in {"repairing", "failing"}
      /\ pc' = [pc EXCEPT ![c] = pc'[c]]
      /\ plan' = plan /\ plan' = [plan EXCEPT ![c] = plan'[c]]
      /\ plan'[c] \in Plan /\ plan[c].stage = "snapshot"
      /\ UNCHANGED <<tables, seedVars, stamped, batch>>
  BY DEF KBadExtraction, BadExtraction, queueVars, callVars, KInv, IInv, TypeOK, GraphTypeOK
<1>2. Sound(c)
  BY <1>1 DEF KInv, PlansSound
<1>3. Sound(c)'
  BY <1>1, <1>2 DEF Sound, SnapshotHolds, TargetsLive, EvidencePlanned, NoNewTwins, EdgesRead,
     EdgesPlanned, PlanNodes, Working, tables
<1> QED
  BY <1>1, <1>3, PlanningStep DEF Reading

(* What is left to link are labels, or live concepts of the catalog.        *)
LEMMA ExtractedStep ==
    ASSUME KInv, NEW c \in Call, Extracted(c), IInv'
    PROVE  KInv'
<1>0. plan[c] \in Plan /\ plan[c].stage = "snapshot" /\ Sound(c)
  BY DEF Extracted, KInv, PlansSound, GraphTypeOK
<1>1. PICK S \in SUBSET Candidates(c) :
        plan' = [plan EXCEPT ![c].stage = "linking", ![c].todo = S]
  BY DEF Extracted
<1>2. S \subseteq Label \cup OntId /\ S \cap OntId \subseteq Working(c)
  BY KeeperAssumption DEF Candidates, Vocabulary
<1>3. [plan[c] EXCEPT !.stage = "linking", !.todo = S] \in Plan
  BY <1>0, <1>2 DEF Plan
<1>4. plan' = [plan EXCEPT ![c] = [plan[c] EXCEPT !.stage = "linking", !.todo = S]]
  BY <1>1 DEF KInv, GraphTypeOK
<1>5. plan'[c] = [plan[c] EXCEPT !.stage = "linking", !.todo = S]
  BY <1>4 DEF KInv, GraphTypeOK
<1>6. /\ plan'[c].stage = "linking" /\ plan'[c].todo = S /\ plan'[c].work = plan[c].work
      /\ plan'[c].touched = plan[c].touched /\ plan'[c].evidence = plan[c].evidence
  BY <1>0, <1>5 DEF Plan
<1>7. /\ pc[c] \in {"extracting", "repairing"} /\ pc' = pc /\ pc' = [pc EXCEPT ![c] = pc'[c]]
      /\ plan' = [plan EXCEPT ![c] = plan'[c]] /\ plan'[c] \in Plan
      /\ UNCHANGED <<tables, seedVars, stamped, batch>>
  BY <1>3, <1>4, <1>5 DEF Extracted, vars, KInv, IInv, TypeOK
<1>8. Sound(c)'
  BY <1>0, <1>2, <1>6, <1>7 DEF Sound, SnapshotHolds, TargetsLive, EvidencePlanned, NoNewTwins,
     EdgesRead, EdgesPlanned, PlanNodes, Working, tables
<1> QED
  BY <1>6, <1>7, <1>8, PlanningStep DEF Reading

(* A label node n may get: its own, or one that no node of its type has.    *)
FreeLabel(c, n, y) ==
    \/ y = plan[c].work[n].label
    \/ /\ KindOf[y] = Kind(plan[c].work, n)
       /\ \A m \in Working(c) : Kind(plan[c].work, m) = KindOf[y] => plan[c].work[m].label # y

(* A candidate attached to a node.                                          *)
LEMMA AttachStep ==
    ASSUME KInv, NEW c \in Call, IInv', plan[c].stage = "linking",
           NEW x, NEW n \in Working(c), NEW y \in Label, FreeLabel(c, n, y),
           plan' = [plan EXCEPT ![c].todo = @ \ {x},
                                ![c].touched = @ \cup {n},
                                ![c].work[n].label = y],
           UNCHANGED <<vars, tables, seedVars>>
    PROVE  KInv'
<1> DEFINE old == plan[c].work
           w == [old EXCEPT ![n].label = y]
           p == [plan[c] EXCEPT !.todo = @ \ {x}, !.touched = @ \cup {n}, !.work = w]
<1>0. /\ plan[c] \in Plan /\ Sound(c) /\ plan \in [Call -> Plan]
      /\ old \in [NodeId -> NodeRow] /\ n \in NodeId /\ old[n].status = "live"
  BY DEF KInv, PlansSound, GraphTypeOK, Plan, Working, Live
<1>1. w \in [NodeId -> NodeRow]
  BY <1>0 DEF NodeRow
<1>2. \A m \in NodeId : /\ m # n => w[m] = old[m]
                        /\ w[m].status = old[m].status /\ w[m].vec = old[m].vec
                        /\ w[n].label = y
  BY <1>0 DEF NodeRow
<1>3. plan' = [plan EXCEPT ![c] = p] /\ plan'[c] = p
  BY <1>0
<1> HIDE DEF w
<1>4. p \in Plan
  BY <1>0, <1>1 DEF Plan
<1>5. /\ p.stage = "linking" /\ p.todo \subseteq plan[c].todo /\ p.work = w
      /\ p.touched = plan[c].touched \cup {n} /\ p.evidence = plan[c].evidence
  BY <1>0 DEF Plan
<1> HIDE DEF p
<1>6. /\ pc[c] \in Reading /\ pc[c] # "planned" /\ pc' = pc /\ pc' = [pc EXCEPT ![c] = pc'[c]]
      /\ UNCHANGED <<tables, seedVars, stamped, batch>>
  BY DEF vars, KInv, PlansRun, IInv, TypeOK
<1>7. Working(c)' = Working(c) /\ PlanNodes(c)' = PlanNodes(c)
  <2>1. plan'[c].work = w
    BY <1>3, <1>5
  <2>2. Working(c)' = {m \in NodeId : w[m].status = "live"}
    BY <2>1 DEF Working, Live
  <2>3. PlanNodes(c)' = {m \in NodeId : w[m].status # "absent"}
    BY <2>1 DEF PlanNodes
  <2> QED
    BY <1>2, <2>2, <2>3, ZenonT(60) DEF Working, PlanNodes, Live
<1>8. SnapshotHolds(c)'
  <2>1. plan'[c].work = w /\ nodes' = nodes /\ pc'[c] = pc[c]
    BY <1>3, <1>5, <1>6 DEF tables
  <2>2. SnapshotHolds(c) /\ PlanNodes(c) \subseteq NodeId
    BY <1>0 DEF Sound, PlanNodes
  <2>3. \A m \in PlanNodes(c) : w[m].status = old[m].status /\ w[m].vec = old[m].vec
    BY <1>2, <2>2
  <2> QED
    BY <1>7, <2>1, <2>2, <2>3 DEF SnapshotHolds, Live
<1>9. NoNewTwins(c)'
  <2>1. ASSUME NEW a \in DynId, NEW b \in DynId, Doubles(w, a, b)
        PROVE  Doubles(old, a, b)
    <3>1. a \in NodeId /\ b \in NodeId
      BY DEF NodeId
    <3>2. old[a].status = "live" /\ old[b].status = "live" /\ a # b
      BY <1>2, <2>1, <3>1 DEF Doubles
    <3>3. CASE a # n /\ b # n
      BY <1>2, <2>1, <3>1, <3>3 DEF Doubles, Kind
    <3>4. CASE y = old[n].label
      BY <1>2, <2>1, <3>1, <3>2, <3>4 DEF Doubles, Kind, Twins
    <3>5. CASE y # old[n].label /\ a = n
      <4>1. Kind(old, a) = Kind(old, b) /\ old[b].label # y
        BY <1>2, <2>1, <3>1, <3>2, <3>5 DEF Doubles, Kind, Working, Live, FreeLabel
      <4> QED
        BY <1>2, <2>1, <3>1, <3>2, <3>5, <4>1 DEF Doubles, Twins
    <3>6. CASE y # old[n].label /\ b = n
      <4>1. Kind(old, a) = Kind(old, b) /\ old[a].label # y
        BY <1>2, <2>1, <3>1, <3>2, <3>6 DEF Doubles, Kind, Working, Live, FreeLabel
      <4> QED
        BY <1>2, <2>1, <3>1, <3>2, <3>6, <4>1 DEF Doubles, Twins
    <3> QED
      BY <3>3, <3>4, <3>5, <3>6
  <2>2. DupPairs(w) \subseteq DupPairs(old)
    BY <2>1, DupPairsShrink
  <2> QED
    BY <1>0, <1>3, <1>5, <1>6, <2>2 DEF Sound, NoNewTwins, tables
<1>10. Sound(c)'
  BY <1>0, <1>3, <1>5, <1>6, <1>7, <1>8, <1>9, ZenonT(60) DEF Sound, TargetsLive, EvidencePlanned,
     EdgesRead, EdgesPlanned, Working, tables
<1> QED
  BY <1>3, <1>4, <1>5, <1>6, <1>10, PlanningStep DEF Reading

(* A candidate that becomes a node: nothing in the plan is its twin.        *)
LEMMA CreateStep ==
    ASSUME KInv, NEW c \in Call, IInv', plan[c].stage = "linking",
           NEW x \in Label, TwinNodes(c, x) = {}, NEW n \in DynId, Unused(n),
           plan' = [plan EXCEPT ![c].todo = @ \ {x},
                                ![c].touched = @ \cup {n},
                                ![c].work[n] = Fresh(x, MaxSal)],
           UNCHANGED <<vars, tables, seedVars>>
    PROVE  KInv'
<1> DEFINE old == plan[c].work
           w == [old EXCEPT ![n] = Fresh(x, MaxSal)]
           p == [plan[c] EXCEPT !.todo = @ \ {x}, !.touched = @ \cup {n}, !.work = w]
<1>0. /\ plan[c] \in Plan /\ Sound(c) /\ plan \in [Call -> Plan]
      /\ old \in [NodeId -> NodeRow] /\ n \in NodeId /\ nodes[n].status = "absent"
      /\ n \notin OntId
  BY KeeperAssumption DEF KInv, PlansSound, GraphTypeOK, Plan, NodeId, Unused
<1>1. w \in [NodeId -> NodeRow]
  <2>1. MaxSal \in 0..MaxSal
    BY KeeperAssumption
  <2> QED
    BY <1>0, <2>1, FreshType
<1>2. /\ \A m \in NodeId : m # n => w[m] = old[m]
      /\ w[n].status = "live" /\ w[n].label = x /\ w[n].vec = x
  BY <1>0 DEF Fresh
<1>3. plan' = [plan EXCEPT ![c] = p] /\ plan'[c] = p
  BY <1>0
<1> HIDE DEF w
<1>4. p \in Plan
  BY <1>0, <1>1 DEF Plan
<1>5. /\ p.stage = "linking" /\ p.todo \subseteq plan[c].todo /\ p.work = w
      /\ p.touched = plan[c].touched \cup {n} /\ p.evidence = plan[c].evidence
  BY <1>0 DEF Plan
<1> HIDE DEF p
<1>6. /\ pc[c] \in Reading /\ pc[c] # "planned" /\ pc' = pc /\ pc' = [pc EXCEPT ![c] = pc'[c]]
      /\ UNCHANGED <<tables, seedVars, stamped, batch>>
  BY DEF vars, KInv, PlansRun, IInv, TypeOK
<1>7. /\ Working(c) \cup {n} \subseteq Working(c)'
      /\ PlanNodes(c)' = PlanNodes(c) \cup {n}
  <2>1. plan'[c].work = w
    BY <1>3, <1>5
  <2> QED
    BY <1>0, <1>2, <2>1 DEF Working, PlanNodes, Live
<1>8. SnapshotHolds(c)'
  <2>1. plan'[c].work = w /\ nodes' = nodes /\ pc'[c] = pc[c]
    BY <1>3, <1>5, <1>6 DEF tables
  <2>2. SnapshotHolds(c) /\ PlanNodes(c) \subseteq NodeId
    BY <1>0 DEF Sound, PlanNodes
  <2>3. \A m \in PlanNodes(c) : m # n => w[m] = old[m]
    BY <1>2, <2>2
  <2>4. pc'[c] # "planned" => PlanNodes(c)' \subseteq Working(c)'
    BY <1>7, <2>1, <2>2 DEF SnapshotHolds
  <2>5. \A m \in PlanNodes(c)' :
          /\ nodes'[m].status = "live" \/ (m \in DynId /\ nodes'[m].status = "absent")
          /\ m \in DynId /\ nodes'[m].status = "live" => nodes'[m].vec = plan'[c].work[m].vec
          /\ m \in OntId => plan'[c].work[m].status = "live"
    BY <1>0, <1>7, <2>1, <2>2, <2>3 DEF SnapshotHolds
  <2> QED
    BY <1>7, <2>1, <2>2, <2>4, <2>5 DEF SnapshotHolds, Live
<1>9. NoNewTwins(c)'
  <2>1. ASSUME NEW a \in DynId, NEW b \in DynId, Doubles(w, a, b)
        PROVE  Doubles(old, a, b)
    <3>1. a \in NodeId /\ b \in NodeId
      BY DEF NodeId
    <3>2. ASSUME NEW m \in Working(c), Kind(old, m) = KindOf[x]
          PROVE  ~Twins(old[m], x, x)
      BY <3>2 DEF TwinNodes, SameKind, Twins
    <3>3. CASE a # n /\ b # n
      BY <1>2, <2>1, <3>1, <3>3 DEF Doubles, Kind
    <3>4. CASE a = n /\ b # n
      <4>1. b \in Working(c) /\ Kind(old, b) = KindOf[x]
        BY <1>2, <2>1, <3>1, <3>4 DEF Doubles, Kind, Working, Live
      <4>2. Twins(w[n], old[b].label, old[b].vec)
        BY <1>2, <2>1, <3>1, <3>4 DEF Doubles
      <4>3. {x, old[b].vec} = {old[b].vec, x}
        OBVIOUS
      <4> QED
        BY <1>2, <3>2, <4>1, <4>2, <4>3 DEF Twins
    <3>5. CASE b = n /\ a # n
      <4>1. a \in Working(c) /\ Kind(old, a) = KindOf[x]
        BY <1>2, <2>1, <3>1, <3>5 DEF Doubles, Kind, Working, Live
      <4>2. Twins(old[a], x, x)
        BY <1>2, <2>1, <3>1, <3>5 DEF Doubles
      <4> QED
        BY <3>2, <4>1, <4>2
    <3> QED
      BY <2>1, <3>3, <3>4, <3>5 DEF Doubles
  <2>2. DupPairs(w) \subseteq DupPairs(old)
    BY <2>1, DupPairsShrink
  <2> QED
    BY <1>0, <1>3, <1>5, <1>6, <2>2 DEF Sound, NoNewTwins, tables
<1>10. TargetsLive(c)'
  BY <1>0, <1>3, <1>5, <1>7 DEF Sound, TargetsLive
<1>11. Sound(c)'
  BY <1>0, <1>3, <1>5, <1>6, <1>8, <1>9, <1>10 DEF Sound, EvidencePlanned, EdgesRead, EdgesPlanned, tables
<1> QED
  BY <1>3, <1>4, <1>5, <1>6, <1>11, PlanningStep DEF Reading

(* A candidate that is linked or created makes no twin in the plan, because *)
(* whatever it is like was tried first (Keeper._resolve).                   *)
LEMMA LinkStep ==
    ASSUME KInv, NEW c \in Call, Link(c), IInv'
    PROVE  KInv'
<1> DEFINE Attach(x, n) ==
                [plan EXCEPT ![c].todo = @ \ {x},
                             ![c].touched = @ \cup {n},
                             ![c].work[n].label = IF x \in Label THEN Canonical(@, x) ELSE @]
<1>0. /\ plan[c].stage = "linking" /\ UNCHANGED <<vars, tables, seedVars>>
      /\ plan[c].work \in [NodeId -> NodeRow] /\ Sound(c)
  BY DEF Link, KInv, GraphTypeOK, PlansSound, Plan
<1>1. ASSUME NEW x \in plan[c].todo, x \in OntId, plan' = Attach(x, x)
      PROVE  KInv'
  <2>1. x \in Working(c) /\ x \notin Label
    BY <1>0, <1>1, KeeperAssumption DEF Sound, TargetsLive
  <2> DEFINE y == plan[c].work[x].label
  <2>2. plan' = [plan EXCEPT ![c].todo = @ \ {x}, ![c].touched = @ \cup {x},
                             ![c].work[x].label = y]
    BY <1>1, <2>1
  <2>3. y \in Label /\ FreeLabel(c, x, y)
    BY <1>0, <2>1 DEF NodeRow, Working, Live, FreeLabel
  <2> HIDE DEF y, Attach
  <2> QED
    BY <1>0, <2>1, <2>2, <2>3, AttachStep
<1>2. ASSUME NEW x \in plan[c].todo, x \in Label, NEW n \in SameKind(c, x), plan' = Attach(x, n),
             plan[c].work[n].label = x \/ \A m \in SameKind(c, x) : plan[c].work[m].label # x
      PROVE  KInv'
  <2>1. n \in Working(c) /\ Kind(plan[c].work, n) = KindOf[x]
    BY DEF SameKind
  <2> DEFINE y == Canonical(plan[c].work[n].label, x)
  <2>2. plan' = [plan EXCEPT ![c].todo = @ \ {x}, ![c].touched = @ \cup {n},
                             ![c].work[n].label = y]
    BY <1>2
  <2>3. y \in {plan[c].work[n].label, x}
    BY DEF Canonical
  <2>5. y \in Label
    BY <1>0, <1>2, <2>1, <2>3 DEF NodeRow, Working, Live
  <2> HIDE DEF y, Attach
  <2>4. FreeLabel(c, n, y)
    BY <1>2, <2>1, <2>3 DEF SameKind, FreeLabel
  <2> QED
    BY <1>0, <2>1, <2>2, <2>4, <2>5, AttachStep
<1>3. ASSUME NEW x \in plan[c].todo, x \in Label, NEW n \in TwinNodes(c, x), plan' = Attach(x, n)
      PROVE  KInv'
  BY <1>2, <1>3 DEF TwinNodes
<1>4. ASSUME NEW x \in plan[c].todo, x \in Label, TwinNodes(c, x) = {},
             NEW n \in NearNodes(c, x), plan' = Attach(x, n)
      PROVE  KInv'
  BY <1>2, <1>4 DEF TwinNodes, NearNodes
<1>5. ASSUME NEW x \in plan[c].todo, x \in Label, TwinNodes(c, x) = {},
             NEW n \in DynId, Unused(n),
             plan' = [plan EXCEPT ![c].todo = @ \ {x}, ![c].touched = @ \cup {n},
                                  ![c].work[n] = Fresh(x, MaxSal)]
      PROVE  KInv'
  BY <1>0, <1>5, CreateStep
<1> QED
  BY <1>1, <1>3, <1>4, <1>5, ZenonT(60) DEF Link

(* The edges the plan reads are still all there are of its nodes: the lock  *)
(* keeps other writers out (get_edges).                                     *)
LEMMA ReadEdgesStep ==
    ASSUME KInv, NEW c \in Call, ReadEdges(c), IInv'
    PROVE  KInv'
<1> DEFINE stored_ids == Working(c) \cap Live(nodes)
           about == plan[c].touched \cup (IF Vocabulary(c) = {} THEN Concepts(c) ELSE {})
           known == {e \in edges : Pair(e) \cap stored_ids # {}}
<1>0. /\ plan[c] \in Plan /\ plan[c].stage = "linking" /\ Sound(c) /\ plan \in [Call -> Plan]
      /\ edges \subseteq Edge /\ batch[c] \subseteq Event
      /\ pc[c] \in Reading /\ pc[c] # "planned" /\ pc' = pc /\ pc' = [pc EXCEPT ![c] = pc'[c]]
      /\ UNCHANGED <<tables, seedVars, stamped, batch>>
  BY DEF ReadEdges, KInv, PlansSound, PlansRun, GraphTypeOK, vars, IInv, TypeOK
<1>1. about \subseteq Working(c) /\ Working(c) \subseteq NodeId
  BY <1>0 DEF Sound, TargetsLive, Concepts, Working, Live
<1>2. PICK S \in SUBSET batch[c] : \E to \in [S -> about] :
        plan' = [plan EXCEPT ![c].stage = "relating",
                             ![c].known = known,
                             ![c].evidence = {<<e, to[e]>> : e \in S},
                             ![c].touched = @ \cup {to[e] : e \in S}]
  BY DEF ReadEdges
<1>16. PICK to \in [S -> about] :
        plan' = [plan EXCEPT ![c].stage = "relating",
                             ![c].known = known,
                             ![c].evidence = {<<e, to[e]>> : e \in S},
                             ![c].touched = @ \cup {to[e] : e \in S}]
  BY <1>2
<1> DEFINE ev == {<<e, to[e]>> : e \in S}
           more == {to[e] : e \in S}
           p == [plan[c] EXCEPT !.stage = "relating", !.known = known, !.evidence = ev,
                                !.touched = @ \cup more]
<1>3. plan' = [plan EXCEPT ![c] = p] /\ plan'[c] = p
  BY <1>0, <1>16
<1>4. /\ \A r \in ev : r[1] \in batch[c] /\ r[2] \in more
      /\ \A r, s \in ev : r[1] = s[1] => r = s
      /\ ev \subseteq Event \X NodeId
      /\ more \subseteq about
  BY <1>0, <1>1
<1>5. known \subseteq edges
  OBVIOUS
<1>6. ASSUME NEW e \in edges, NEW n \in Pair(e) \cap PlanNodes(c) \cap DynId
      PROVE  e \in known
  <2>1. nodes[n].status = "live" /\ n \in Working(c) /\ n \in NodeId
    BY <1>0 DEF KInv, EdgesWellFormed, Sound, SnapshotHolds, PlanNodes
  <2> QED
    BY <2>1 DEF Live
<1> HIDE DEF ev, more, known, about
<1>7. p \in Plan
  BY <1>0, <1>1, <1>4, <1>5 DEF Plan
<1>8. /\ p.stage = "relating" /\ p.todo = plan[c].todo /\ p.work = plan[c].work
      /\ p.touched = plan[c].touched \cup more /\ p.evidence = ev /\ p.known = known
  BY <1>0 DEF Plan
<1> HIDE DEF p
<1>9. WellFormed(known)
  BY <1>5 DEF KInv, EdgesWellFormed, WellFormed
<1>10. Working(c)' = Working(c) /\ PlanNodes(c)' = PlanNodes(c)
  BY <1>3, <1>8 DEF Working, PlanNodes
<1>11. SnapshotHolds(c)' /\ NoNewTwins(c)'
  BY <1>0, <1>3, <1>8, <1>10 DEF Sound, SnapshotHolds, NoNewTwins, tables
<1>12. TargetsLive(c)'
  BY <1>0, <1>1, <1>3, <1>4, <1>8, <1>10 DEF Sound, TargetsLive
<1>13. EvidencePlanned(c)'
  BY <1>0, <1>3, <1>4, <1>8 DEF EvidencePlanned
<1>14. EdgesRead(c)'
  BY <1>0, <1>3, <1>5, <1>6, <1>8, <1>9, <1>10 DEF EdgesRead, tables
<1>15. Sound(c)'
  BY <1>0, <1>11, <1>12, <1>13, <1>14 DEF Sound, EdgesPlanned
<1> QED
  BY <1>0, <1>3, <1>7, <1>8, <1>15, PlanningStep DEF Reading

(* Decay, pruning and reconciliation end the plan: touched nodes survive,   *)
(* and what is planned for a pair outranks what it has.                     *)
LEMMA RelateStep ==
    ASSUME KInv, NEW c \in Call, Relate(c), IInv'
    PROVE  KInv'
<1>0. /\ plan[c] \in Plan /\ plan[c].stage = "relating" /\ Sound(c) /\ plan \in [Call -> Plan]
      /\ plan[c].work \in [NodeId -> NodeRow]
      /\ pc[c] \in {"extracting", "repairing"} /\ pc'[c] = "planned"
      /\ pc' = [pc EXCEPT ![c] = pc'[c]]
      /\ UNCHANGED <<tables, seedVars, stamped, batch>>
  BY DEF Relate, PlanReady, KInv, PlansSound, GraphTypeOK, Plan, queueVars, callVars, IInv, TypeOK
<1>1. PICK rels \in Relations(c), left \in Decays(c) :
        plan' = [plan EXCEPT
            ![c].edges = Reconcile(plan[c].known, rels),
            ![c].work = [n \in NodeId |-> Aged(@[n], n, left)]]
  BY DEF Relate
<1> DEFINE old == plan[c].work
           w == [n \in NodeId |-> Aged(old[n], n, left)]
           es == Reconcile(plan[c].known, rels)
           p == [plan[c] EXCEPT !.edges = es, !.work = w]
<1>2. plan' = [plan EXCEPT ![c] = p] /\ plan'[c] = p
  BY <1>0, <1>1
<1>3. \A n \in NodeId :
        /\ w[n] \in NodeRow
        /\ w[n].label = old[n].label /\ w[n].vec = old[n].vec
        /\ w[n].status = "live" => old[n].status = "live"
        /\ w[n].status = "absent" <=> old[n].status = "absent"
        /\ old[n].status = "live" /\ (n \in plan[c].touched \/ n \notin DynId) => w[n].status = "live"
  <2> TAKE n \in NodeId
  <2>1. /\ old[n] \in NodeRow
        /\ n \in DOMAIN left => left[n] \in 0..MaxSal /\ n \notin plan[c].touched
    BY <1>0 DEF Decays
  <2>2. w[n] = Aged(old[n], n, left)
    OBVIOUS
  <2> HIDE DEF w, old
  <2> QED
    BY <2>1, <2>2, Ages
<1>4. w \in [NodeId -> NodeRow]
  BY <1>3
<1>5. rels \in Seq(Edge) /\ \A i \in DOMAIN rels : Pair(rels[i]) \subseteq PlanNodes(c) \cap DynId
  <2>1. CASE Vocabulary(c) # {}
    <3>1. rels = << >>
      BY <2>1 DEF Relations
    <3> QED
      BY <3>1
  <2>2. CASE Vocabulary(c) = {}
    <3> DEFINE R == [src: Concepts(c), dst: Concepts(c), type: RelType]
    <3>1. PICK k \in 0..MaxRelations : rels \in [1..k -> R]
      BY <2>2 DEF Relations
    <3>2. Concepts(c) \subseteq PlanNodes(c) \cap DynId
      BY <2>2 DEF Concepts, Working, Live, Vocabulary, PlanNodes, NodeId
    <3>3. R \subseteq Edge /\ \A r \in R : Pair(r) \subseteq PlanNodes(c) \cap DynId
      BY <3>2, KeeperAssumption DEF Edge, Pair, NodeId
    <3> HIDE DEF R
    <3>4. k \in Nat /\ DOMAIN rels = 1..k /\ \A i \in 1..k : rels[i] \in R
      BY <3>1
    <3> QED
      BY <3>1, <3>3, <3>4
  <2> QED
    BY <2>1, <2>2
<1>6. /\ es \subseteq Edge /\ WellFormed(es)
      /\ \A e \in es \ plan[c].known :
           /\ \E i \in DOMAIN rels : e = rels[i]
           /\ \A k \in On(plan[c].known, e) : Rank[e.type] > Rank[k.type]
  BY <1>0, <1>5, Reconciles DEF Sound, EdgesRead
<1> HIDE DEF w, es
<1>7. p \in Plan
  BY <1>0, <1>4, <1>6 DEF Plan
<1>8. /\ p.stage = "relating" /\ p.todo = plan[c].todo /\ p.work = w
      /\ p.touched = plan[c].touched /\ p.evidence = plan[c].evidence /\ p.known = plan[c].known
      /\ p.edges = es
  BY <1>0 DEF Plan
<1> HIDE DEF p
<1>9. PlanNodes(c)' = PlanNodes(c)
  <2>1. PlanNodes(c)' = {m \in NodeId : w[m].status # "absent"}
    BY <1>2, <1>8 DEF PlanNodes
  <2> QED
    BY <1>3, <2>1 DEF PlanNodes
<1>10. \A n \in Working(c) : n \in plan[c].touched \/ n \in OntId => n \in Working(c)'
  <2>1. Working(c)' = {m \in NodeId : w[m].status = "live"}
    BY <1>2, <1>8 DEF Working, Live
  <2> QED
    BY <1>3, <2>1, KeeperAssumption DEF Working, Live
<1>11. SnapshotHolds(c)'
  BY <1>0, <1>2, <1>3, <1>8, <1>9, KeeperAssumption DEF Sound, SnapshotHolds, PlanNodes, tables
<1>12. NoNewTwins(c)'
  <2>1. \A a, b \in DynId : Doubles(w, a, b) => Doubles(old, a, b)
    BY <1>3 DEF Doubles, Kind, Twins, NodeId
  <2>2. DupPairs(w) \subseteq DupPairs(old)
    BY <2>1, DupPairsShrink
  <2> QED
    BY <1>0, <1>2, <1>8, <2>2 DEF Sound, NoNewTwins, tables
<1>13. TargetsLive(c)'
  BY <1>0, <1>2, <1>8, <1>10 DEF Sound, TargetsLive
<1>14. EvidencePlanned(c)' /\ EdgesRead(c)'
  BY <1>0, <1>2, <1>8, <1>9 DEF Sound, EvidencePlanned, EdgesRead, tables
<1>15. EdgesPlanned(c)'
  BY <1>2, <1>5, <1>6, <1>8, <1>9 DEF EdgesPlanned
<1> QED
  BY <1>0, <1>2, <1>7, <1>8, <1>11, <1>12, <1>13, <1>14, <1>15, PlanningStep DEF Reading, Sound

------------------------------------------------------------------------------
(* Steps that write no table and make no plan.                              *)
LEMMA QuietStep ==
    ASSUME KInv, IInv', UNCHANGED <<tables, curText, stamped>>,
           seed' = seed \/ seed' \in Curriculum \cup {NoSeed},
           plan' \in [Call -> Plan],
           \A c \in Call : plan'[c].stage = "none" \/ (plan' = plan /\ pc'[c] = pc[c] /\ batch'[c] = batch[c]),
           \A c \in Call : plan'[c].stage = "none" =>
                /\ plan'[c].todo = {} /\ plan'[c].touched = {} /\ plan'[c].evidence = {}
                /\ pc'[c] # "planned",
           RejectedInDoubt', SweepLeavesOnlyDoubts'
    PROVE  KInv'
<1> USE DEF KInv
<1>1. GraphTypeOK'
  BY DEF GraphTypeOK, IInv, tables
<1>2. EdgesWellFormed' /\ RetiredIsBare' /\ OntologyLives' /\ EvidenceKnown'
  BY DEF EdgesWellFormed, RetiredIsBare, OntologyLives, EvidenceKnown, WellFormed, tables
<1>3. PlansRun'
  BY DEF PlansRun
<1>4. ASSUME NEW c \in Call, plan'[c].stage # "none"
      PROVE  Sound(c)'
  <2>1. plan' = plan /\ pc'[c] = pc[c] /\ batch'[c] = batch[c] /\ Sound(c)
    BY <1>4 DEF PlansSound
  <2> QED
    BY <2>1 DEF Sound, SnapshotHolds, TargetsLive, EvidencePlanned, NoNewTwins, EdgesRead,
       EdgesPlanned, PlanNodes, Working, tables
<1> QED
  BY <1>1, <1>2, <1>3, <1>4 DEF PlansSound

(* A new event concerns no plan under way.                                  *)
LEMMA IngestStep ==
    ASSUME KInv, IInv', NEW S \in SUBSET Event, Ingest(S), UNCHANGED <<tables, seedVars, plan>>
    PROVE  KInv'
<1>1. UNCHANGED <<stamped, pc, batch, report>>
  BY DEF Ingest
<1>2. RejectedInDoubt' /\ SweepLeavesOnlyDoubts'
  BY <1>1 DEF KInv, RejectedInDoubt, SweepLeavesOnlyDoubts, tables
<1> QED
  BY <1>1, <1>2, QuietStep DEF seedVars, KInv, GraphTypeOK, PlansRun

(* The protocol's steps that touch neither tables nor plans.                *)
LEMMA UneventfulStep ==
    ASSUME KInv, IInv', NEW c \in Call, Uneventful(c), UNCHANGED <<tables, seedVars, plan>>
    PROVE  KInv'
<1>1. /\ pc[c] \in {"idle", "locked"} /\ pc'[c] # "planned"
      /\ UNCHANGED stamped
      /\ \A d \in Call : d # c => pc'[d] = pc[d] /\ batch'[d] = batch[d] /\ report'[d] = report[d]
      /\ pc'[c] = "releasing" => report'[c] = "empty"
      /\ pc'[c] \in {"idle", "sweeping"} => pc[c] = "idle"
  BY DEF Uneventful, Begin, BeginRepair, TryLock, Skip, ReadPending, queueVars, KInv, IInv, TypeOK
<1>2. plan[c].stage = "none"
  BY <1>1 DEF KInv, PlansRun, Reading
<1>3. RejectedInDoubt' /\ SweepLeavesOnlyDoubts'
  BY <1>1 DEF KInv, RejectedInDoubt, SweepLeavesOnlyDoubts, tables
<1> QED
  BY <1>1, <1>2, <1>3, QuietStep DEF seedVars, KInv, GraphTypeOK, PlansRun

(* A run that ends for any reason drops its plan.                           *)
LEMMA LeaveStep ==
    ASSUME KInv, IInv', NEW c \in Call, Leave(c), plan' = [plan EXCEPT ![c] = Blank],
           UNCHANGED <<tables, seedVars>>
    PROVE  KInv'
<1>1. /\ pc[c] # "idle" /\ pc'[c] # "planned"
      /\ UNCHANGED stamped
      /\ \A d \in Call : d # c => pc'[d] = pc[d] /\ batch'[d] = batch[d] /\ report'[d] = report[d]
      /\ pc'[c] = "releasing" => report'[c] # "swept"
  BY DEF Leave, AuditFailure, Abort, Crash, Release, queueVars, KInv, IInv, TypeOK
<1>2. \A d \in Call : d # c => plan[d].stage = "none" /\ plan'[d] = plan[d]
  BY <1>1, OnePlan DEF KInv, GraphTypeOK
<1>3. plan'[c] = Blank /\ plan' \in [Call -> Plan]
  BY BlankType DEF KInv, GraphTypeOK
<1>4. RejectedInDoubt' /\ SweepLeavesOnlyDoubts'
  BY <1>1, <1>2, <1>3 DEF KInv, RejectedInDoubt, SweepLeavesOnlyDoubts, Blank, tables
<1> QED
  BY <1>1, <1>2, <1>3, <1>4, QuietStep DEF seedVars, KInv, PlansRun, Blank

(* The reflector keeps a pair of a sweep apart; nothing is written.         *)
LEMMA RejectStep ==
    ASSUME KInv, IInv', NEW c \in Call, SweepReject(c)
    PROVE  KInv'
<1>1. pc[c] = "sweeping" /\ UNCHANGED <<tables, seedVars, stamped, pc, batch, report>>
  BY DEF SweepReject, vars
<1>2. plan \in [Call -> Plan] /\ plan[c] \in Plan /\ \A d \in Call : plan[d].stage = "none"
  BY <1>1, OnePlan DEF KInv, PlansRun, Reading, GraphTypeOK
<1>3. PICK p \in MaybeDupPairs(nodes) :
        plan' = [plan EXCEPT ![c].rejected = @ \cup {p}]
  BY DEF SweepReject
<1> DEFINE q == [plan[c] EXCEPT !.rejected = @ \cup {p}]
<1>4. plan' = [plan EXCEPT ![c] = q]
  BY <1>2, <1>3
<1>5. p \subseteq DynId
  BY DEF MaybeDupPairs
<1>6. /\ q \in Plan
      /\ q.stage = plan[c].stage /\ q.todo = plan[c].todo /\ q.touched = plan[c].touched
      /\ q.evidence = plan[c].evidence /\ q.rejected = plan[c].rejected \cup {p}
  BY <1>2, <1>5 DEF Plan
<1> HIDE DEF q
<1>7. plan' \in [Call -> Plan] /\ \A d \in Call : plan'[d] = IF d = c THEN q ELSE plan[d]
  BY <1>2, <1>4, <1>6
<1>8. Doubtful(nodes, p)
  BY DEF MaybeDupPairs, Doubtful, Twins
<1>9. RejectedInDoubt' /\ SweepLeavesOnlyDoubts'
  BY <1>1, <1>6, <1>7, <1>8 DEF KInv, RejectedInDoubt, SweepLeavesOnlyDoubts, tables
<1> QED
  BY <1>1, <1>2, <1>6, <1>7, <1>9, QuietStep DEF seedVars, KInv, PlansRun

(* A sweep ends when all twins left were rejected (Keeper.repair_merges).   *)
LEMMA SweepDoneStep ==
    ASSUME KInv, IInv', NEW c \in Call, KSweepDone(c)
    PROVE  KInv'
<1>1. /\ pc[c] = "sweeping" /\ pc'[c] = "releasing" /\ Unsettled(c) = {}
      /\ UNCHANGED <<tables, seedVars, stamped, batch>>
      /\ plan' = [plan EXCEPT ![c] = Blank]
      /\ \A d \in Call : d # c => pc'[d] = pc[d] /\ report'[d] = report[d]
  BY DEF KSweepDone, SweepDone, queueVars, KInv, IInv, TypeOK
<1>2. plan \in [Call -> Plan] /\ \A d \in Call : plan[d].stage = "none"
  BY <1>1, OnePlan DEF KInv, PlansRun, Reading, GraphTypeOK
<1>3. plan' \in [Call -> Plan] /\ \A d \in Call : plan'[d] = IF d = c THEN Blank ELSE plan[d]
  BY <1>1, <1>2, BlankType
<1>4. \A p \in DupPairs(nodes) : Doubtful(nodes, p)
  BY <1>1 DEF KInv, RejectedInDoubt, Unsettled
<1>5. RejectedInDoubt' /\ SweepLeavesOnlyDoubts'
  BY <1>1, <1>3, <1>4 DEF KInv, RejectedInDoubt, SweepLeavesOnlyDoubts, Blank, tables
<1> QED
  BY <1>1, <1>2, <1>3, <1>5, QuietStep DEF seedVars, KInv, PlansRun, Blank

------------------------------------------------------------------------------
(* The commit of a plan.                                                    *)
LEMMA CommitRows ==
    ASSUME KInv, NEW c \in Call, KCommit(c)
    PROVE  /\ nodes' \in [NodeId -> NodeRow]
           /\ \A n \in NodeId \ PlanNodes(c) : nodes'[n] = nodes[n]
           /\ \A n \in PlanNodes(c) :
                /\ nodes'[n].status = plan[c].work[n].status
                /\ nodes'[n].label = plan[c].work[n].label
                /\ n \in DynId => nodes'[n].vec = plan[c].work[n].vec
<1> DEFINE w == plan[c].work
           new(n) == IF w[n].status = "absent" THEN nodes[n]
                     ELSE IF nodes[n].status = "absent" THEN w[n]
                     ELSE [w[n] EXCEPT !.vec = nodes[n].vec]
<1>0. /\ w \in [NodeId -> NodeRow] /\ nodes \in [NodeId -> NodeRow]
      /\ SnapshotHolds(c)
  BY DEF KInv, GraphTypeOK, Plan, PlansRun, PlansSound, Sound, KCommit, Commit
<1>1. nodes' = [n \in NodeId |-> new(n)]
  BY DEF KCommit
<1>2. ASSUME NEW n \in NodeId
      PROVE  /\ new(n) \in NodeRow
             /\ n \notin PlanNodes(c) => new(n) = nodes[n]
             /\ n \in PlanNodes(c) =>
                  /\ new(n).status = w[n].status
                  /\ new(n).label = w[n].label
                  /\ n \in DynId => new(n).vec = w[n].vec
  <2>1. w[n] \in NodeRow /\ nodes[n] \in NodeRow
    BY <1>0
  <2>2. /\ [w[n] EXCEPT !.vec = nodes[n].vec] \in NodeRow
        /\ [w[n] EXCEPT !.vec = nodes[n].vec].status = w[n].status
        /\ [w[n] EXCEPT !.vec = nodes[n].vec].label = w[n].label
        /\ [w[n] EXCEPT !.vec = nodes[n].vec].vec = nodes[n].vec
    BY <2>1 DEF NodeRow
  <2> QED
    BY <1>0, <2>1, <2>2 DEF SnapshotHolds, PlanNodes
<1> HIDE DEF new, w
<1>3. \A n \in NodeId : nodes'[n] = new(n)
  BY <1>1
<1> QED
  BY <1>1, <1>2, <1>3 DEF PlanNodes, w

(* What it adds joins the Keeper's own nodes; what it replaces, it          *)
(* strengthens.                                                             *)
LEMMA CommitEdges ==
    ASSUME KInv, NEW c \in Call, KCommit(c)
    PROVE  /\ edges' \subseteq Edge
           /\ WellFormed(edges')
           /\ \A e \in edges' \ edges : Pair(e) \subseteq PlanNodes(c) \cap DynId
           /\ \A e \in edges : \E f \in edges' :
                Pair(f) = Pair(e) /\ (f = e \/ Rank[f.type] > Rank[e.type])
<1> DEFINE known == plan[c].known
           planned == plan[c].edges
<1>1. /\ edges \subseteq Edge /\ WellFormed(edges)
      /\ EdgesRead(c) /\ EdgesPlanned(c) /\ plan[c].stage = "relating" /\ pc[c] = "planned"
  BY DEF KInv, GraphTypeOK, PlansRun, PlansSound, Sound, KCommit, Commit, EdgesWellFormed
<1>2. /\ planned \subseteq Edge /\ WellFormed(planned)
      /\ \A e \in planned \ known : Pair(e) \subseteq PlanNodes(c) \cap DynId
      /\ \A e \in planned \ known : \A k \in On(known, e) : Rank[e.type] > Rank[k.type]
  BY <1>1 DEF EdgesPlanned
<1>3. \A e \in planned \ known, f \in edges : Pair(f) = Pair(e) => f \in known
  BY <1>1, <1>2 DEF EdgesRead, Pair
<1>4. edges' = ApplyEdges(edges, known, planned)
  BY DEF KCommit
<1> HIDE DEF known, planned
<1> QED
  BY <1>1, <1>2, <1>3, <1>4, Applies

(* keeper._resolve: the batch makes no pair of twins.                       *)
LEMMA CommitTwins ==
    ASSUME KInv, NEW c \in Call, KCommit(c)
    PROVE  DupPairs(nodes') \subseteq DupPairs(nodes)
<1> DEFINE w == plan[c].work
<1>1. SnapshotHolds(c) /\ NoNewTwins(c)
  BY DEF KInv, PlansRun, PlansSound, Sound, KCommit, Commit
<1>2. ASSUME NEW n \in DynId, nodes'[n].status = "live"
      PROVE  /\ w[n].status = "live"
             /\ nodes'[n].label = w[n].label /\ nodes'[n].vec = w[n].vec
  <2>1. n \in PlanNodes(c)
    BY <1>1, <1>2, CommitRows DEF SnapshotHolds, Live, NodeId
  <2> QED
    BY <1>2, <2>1, CommitRows
<1>3. \A a, b \in DynId : Doubles(nodes', a, b) => Doubles(w, a, b)
  BY <1>2 DEF Doubles, Kind, Twins
<1>4. DupPairs(nodes') \subseteq DupPairs(w)
  BY <1>3, DupPairsShrink
<1> QED
  BY <1>1, <1>4 DEF NoNewTwins

(* The commit writes the plan: its rows, its edges and its evidence fit the *)
(* tables as they are now (apply_consolidation).                            *)
LEMMA CommitStep ==
    ASSUME KInv, IInv', NEW c \in Call, KCommit(c)
    PROVE  KInv'
<1> USE DEF KInv
<1>0. /\ pc[c] = "planned" /\ pc'[c] = "releasing" /\ report'[c] # "swept"
      /\ stamped' = stamped \cup batch[c]
      /\ \A d \in Call : d # c => pc'[d] = pc[d]
      /\ plan' = [plan EXCEPT ![c] = Blank]
      /\ evidence' = evidence \cup plan[c].evidence
      /\ UNCHANGED <<retired, seedVars>>
  BY DEF KCommit, Commit, IInv, TypeOK
<1>1. plan[c].stage = "relating" /\ Sound(c) /\ batch[c] \cap stamped = {}
  BY <1>0 DEF PlansRun, PlansSound, IInv, BatchStillPending, Reading, Pending
<1>2. plan' \in [Call -> Plan] /\ \A d \in Call : plan'[d].stage = "none"
                               /\ plan'[d].todo = {} /\ plan'[d].touched = {} /\ plan'[d].evidence = {}
  <2>1. \A d \in Call : d # c => plan[d].stage = "none"
    BY <1>0, OnePlan
  <2> QED
    BY <1>0, <2>1, BlankType DEF GraphTypeOK, PlansRun, Blank
<1>3. /\ \A n \in NodeId : nodes[n].status # "absent" => nodes'[n].status # "absent"
      /\ \A n \in PlanNodes(c) : nodes'[n].status # "absent"
  BY CommitRows DEF PlanNodes
<1>4. \A r \in plan[c].evidence : r[1] \in batch[c] /\ r[2] \in Working(c) /\ r[2] \in PlanNodes(c)
  BY <1>1 DEF Sound, EvidencePlanned, TargetsLive, Working, Live, PlanNodes
<1>5. GraphTypeOK'
  <2>1. plan[c].evidence \subseteq Event \X NodeId
    BY DEF GraphTypeOK, Plan
  <2> QED
    BY <1>0, <1>2, <2>1, CommitRows, CommitEdges DEF GraphTypeOK, IInv, seedVars
<1>6. EdgesWellFormed'
  <2>1. \A e \in edges' : \A n \in Pair(e) : nodes'[n].status # "absent"
    <3> SUFFICES ASSUME NEW e \in edges', NEW n \in Pair(e) PROVE nodes'[n].status # "absent"
      OBVIOUS
    <3>1. n \in NodeId
      BY CommitEdges DEF Edge, Pair
    <3>2. CASE e \in edges
      BY <1>3, <3>1, <3>2 DEF EdgesWellFormed
    <3> QED
      BY <1>3, <3>2, CommitEdges
  <2> QED
    BY <2>1, CommitEdges DEF EdgesWellFormed, WellFormed
<1>7. RetiredIsBare'
  <2> SUFFICES ASSUME NEW n \in retired
               PROVE  /\ nodes'[n].status = "merged"
                      /\ \A e \in edges' : n \notin Pair(e)
                      /\ \A r \in evidence' : r[2] # n
    BY <1>0 DEF RetiredIsBare
  <2>1. /\ nodes[n].status = "merged" /\ n \in NodeId
        /\ \A e \in edges : n \notin Pair(e)
        /\ \A r \in evidence : r[2] # n
    BY DEF RetiredIsBare, GraphTypeOK, NodeId
  <2>2. n \notin PlanNodes(c)
    BY <1>1, <2>1 DEF Sound, SnapshotHolds
  <2> QED
    BY <1>0, <1>4, <2>1, <2>2, CommitRows, CommitEdges
<1>8. OntologyLives'
  <2>1. ASSUME NEW o \in OntId
        PROVE  nodes'[o].status = IF o \in PlanNodes(c) THEN "live" ELSE nodes[o].status
    BY <1>1, CommitRows DEF Sound, SnapshotHolds, NodeId
  <2> QED
    BY <1>0, <2>1 DEF OntologyLives, seedVars
<1>9. EvidenceKnown'
  BY <1>0, <1>1, <1>4 DEF EvidenceKnown, Sound, EvidencePlanned
<1>10. PlansRun'
  <2>1. \A d \in Call : d # c => pc[d] = "idle"
    BY <1>0, Solo
  <2> QED
    BY <1>0, <1>2, <2>1 DEF PlansRun
<1>11. PlansSound'
  BY <1>2 DEF PlansSound
<1>12. RejectedInDoubt' /\ SweepLeavesOnlyDoubts'
  <2>1. \A d \in Call : d # c => pc'[d] = "idle" /\ plan'[d].rejected = {}
    BY <1>0, Solo DEF RejectedInDoubt, GraphTypeOK
  <2> QED
    BY <1>0, <2>1 DEF RejectedInDoubt, SweepLeavesOnlyDoubts
<1> QED
  BY <1>5, <1>6, <1>7, <1>8, <1>9, <1>10, <1>11, <1>12

------------------------------------------------------------------------------
(* One merge of a sweep.                                                    *)

(* The two nodes of the merge, and what it writes.                          *)
Merged(keep, drop, tie) ==
    /\ keep \in DynId /\ drop \in DynId /\ keep # drop /\ tie \in {keep, drop}
    /\ nodes[keep].status = "live" /\ nodes[drop].status = "live"
    /\ nodes' = MergeRows(nodes, keep, drop)
    /\ edges' = MergeEdges(edges, keep, drop, tie)
    /\ evidence' = {<<r[1], IF r[2] = drop THEN keep ELSE r[2]>> : r \in evidence}
    /\ retired' = retired \cup {drop}

(* A step of a sweep merges two nodes of the Keeper's own.                  *)
LEMMA MergeOf ==
    ASSUME NEW c \in Call, SweepMerge(c)
    PROVE  \E keep, drop, tie \in DynId : Merged(keep, drop, tie)
<1>1. PICK p \in Unsettled(c) :
        \E keep \in p, tie \in p : \E drop \in p \ {keep} :
            /\ nodes' = MergeRows(nodes, keep, drop)
            /\ edges' = MergeEdges(edges, keep, drop, tie)
            /\ evidence' = {<<r[1], IF r[2] = drop THEN keep ELSE r[2]>> : r \in evidence}
            /\ retired' = retired \cup {drop}
  BY DEF SweepMerge
<1>2. PICK keep \in p, tie \in p : \E drop \in p \ {keep} :
            /\ nodes' = MergeRows(nodes, keep, drop)
            /\ edges' = MergeEdges(edges, keep, drop, tie)
            /\ evidence' = {<<r[1], IF r[2] = drop THEN keep ELSE r[2]>> : r \in evidence}
            /\ retired' = retired \cup {drop}
  BY <1>1
<1>3. PICK drop \in p \ {keep} :
            /\ nodes' = MergeRows(nodes, keep, drop)
            /\ edges' = MergeEdges(edges, keep, drop, tie)
            /\ evidence' = {<<r[1], IF r[2] = drop THEN keep ELSE r[2]>> : r \in evidence}
            /\ retired' = retired \cup {drop}
  BY <1>2
<1>4. /\ p \subseteq Live(nodes) \cap DynId
      /\ \E a, b \in p : p = {a, b}
  BY DEF Unsettled, DupPairs, MaybeDupPairs
<1>5. /\ keep \in DynId /\ drop \in DynId /\ keep # drop /\ tie \in {keep, drop}
      /\ nodes[keep].status = "live" /\ nodes[drop].status = "live"
  BY <1>3, <1>4 DEF Live
<1> QED
  BY <1>3, <1>5 DEF Merged

(* A merge changes no status but that of the dropped node, and no vector.   *)
LEMMA MergeRowsType ==
    ASSUME KInv, NEW keep \in DynId, NEW drop \in DynId, NEW tie \in DynId, Merged(keep, drop, tie)
    PROVE  /\ nodes' \in [NodeId -> NodeRow]
           /\ \A n \in NodeId :
                /\ nodes'[n].status = IF n = drop THEN "merged" ELSE nodes[n].status
                /\ nodes'[n].vec = nodes[n].vec
<1> DEFINE kept == [nodes[keep] EXCEPT !.label = Canonical(@, nodes[drop].label),
                                       !.sal = Stronger(@, nodes[drop].sal)]
           gone == [nodes[drop] EXCEPT !.status = "merged"]
<1>0. /\ nodes \in [NodeId -> NodeRow] /\ keep \in NodeId /\ drop \in NodeId /\ keep # drop
      /\ nodes[keep] \in NodeRow /\ nodes[drop] \in NodeRow
  BY DEF KInv, GraphTypeOK, NodeId, Merged
<1>1. nodes' = [nodes EXCEPT ![keep] = kept, ![drop] = gone]
  BY <1>0 DEF Merged, MergeRows
<1>2. /\ Canonical(nodes[keep].label, nodes[drop].label) \in Label
      /\ Stronger(nodes[keep].sal, nodes[drop].sal) \in 0..MaxSal
  BY <1>0 DEF Canonical, Stronger, NodeRow
<1>3. kept \in NodeRow /\ kept.status = nodes[keep].status /\ kept.vec = nodes[keep].vec
  BY <1>0, <1>2 DEF NodeRow
<1>4. gone \in NodeRow /\ gone.status = "merged" /\ gone.vec = nodes[drop].vec
  BY <1>0 DEF NodeRow, Status
<1> HIDE DEF kept, gone
<1> QED
  BY <1>0, <1>1, <1>3, <1>4

(* A merge leaves the dropped node bare and the pairs unique (merge_nodes). *)
LEMMA MergeStep ==
    ASSUME KInv, IInv', NEW c \in Call, SweepMerge(c)
    PROVE  KInv'
<1> USE DEF KInv
<1>0. pc[c] = "sweeping" /\ UNCHANGED <<vars, seedVars, plan>>
  BY DEF SweepMerge
<1>1. \A d \in Call : plan[d].stage = "none"
  BY <1>0, OnePlan DEF PlansRun, Reading
<1>2. PICK keep \in DynId, drop \in DynId, tie \in DynId : Merged(keep, drop, tie)
  BY MergeOf
<1>3. /\ keep \in NodeId /\ drop \in NodeId /\ keep # drop /\ tie \in {keep, drop}
      /\ nodes[keep].status = "live" /\ nodes[drop].status = "live"
      /\ evidence' = {<<r[1], IF r[2] = drop THEN keep ELSE r[2]>> : r \in evidence}
      /\ retired' = retired \cup {drop}
      /\ edges' = MergeEdges(edges, keep, drop, tie)
      /\ edges \subseteq Edge /\ WellFormed(edges)
  BY <1>2 DEF Merged, NodeId, GraphTypeOK, EdgesWellFormed
<1> DEFINE To(n) == IF n = drop THEN keep ELSE n
<1>4. /\ edges' \subseteq Edge /\ WellFormed(edges')
      /\ \A e \in edges' : \E f \in edges : e.src = To(f.src) /\ e.dst = To(f.dst)
  BY <1>3, Merges
<1>5. \A n \in NodeId : nodes'[n].status = IF n = drop THEN "merged" ELSE nodes[n].status
  BY <1>2, MergeRowsType
<1>6. \A r \in evidence' : \E s \in evidence : r = <<s[1], To(s[2])>>
  BY <1>3
<1>7. evidence \subseteq Event \X NodeId
  BY DEF GraphTypeOK
<1>8. GraphTypeOK'
  <2>1. evidence' \subseteq Event \X NodeId
    BY <1>3, <1>6, <1>7
  <2> QED
    BY <1>0, <1>2, <1>3, <1>4, <2>1, MergeRowsType DEF GraphTypeOK, IInv, vars, seedVars
<1>9. EdgesWellFormed'
  <2> SUFFICES ASSUME NEW e \in edges', NEW n \in Pair(e) PROVE nodes'[n].status # "absent"
    BY <1>4 DEF EdgesWellFormed, WellFormed
  <2>1. PICK f \in edges : e.src = To(f.src) /\ e.dst = To(f.dst)
    BY <1>4
  <2>2. nodes[f.src].status # "absent" /\ nodes[f.dst].status # "absent"
        /\ f.src \in NodeId /\ f.dst \in NodeId
    BY <1>3 DEF EdgesWellFormed, Pair, Edge
  <2> QED
    BY <1>3, <1>5, <2>1, <2>2 DEF Pair
<1>10. RetiredIsBare'
  <2> SUFFICES ASSUME NEW n \in retired'
               PROVE  /\ nodes'[n].status = "merged"
                      /\ \A e \in edges' : n \notin Pair(e)
                      /\ \A r \in evidence' : r[2] # n
    BY DEF RetiredIsBare
  <2>1. n \in NodeId /\ n # keep
    BY <1>3 DEF RetiredIsBare, GraphTypeOK, NodeId
  <2>2. nodes'[n].status = "merged"
    BY <1>3, <1>5, <2>1 DEF RetiredIsBare
  <2>3. \A e \in edges' : n \notin Pair(e)
    BY <1>3, <1>4, <2>1 DEF RetiredIsBare, Pair
  <2>4. \A r \in evidence' : r[2] # n
    BY <1>3, <1>6, <2>1 DEF RetiredIsBare
  <2> QED
    BY <2>2, <2>3, <2>4
<1>11. OntologyLives'
  BY <1>0, <1>2, <1>5, KeeperAssumption DEF OntologyLives, NodeId, seedVars
<1>12. EvidenceKnown'
  <2> SUFFICES ASSUME NEW r \in evidence', NEW s \in evidence'
               PROVE  r[1] \in stamped /\ (r[1] = s[1] => r = s)
    BY <1>0 DEF EvidenceKnown, vars
  <2>1. PICK q \in evidence, t \in evidence : r = <<q[1], To(q[2])>> /\ s = <<t[1], To(t[2])>>
    BY <1>6
  <2>2. q[1] \in stamped /\ (q[1] = t[1] => q = t)
    BY DEF EvidenceKnown
  <2> QED
    BY <2>1, <2>2
<1>13. PlansRun' /\ PlansSound'
  BY <1>0, <1>1 DEF PlansRun, PlansSound, vars
<1>14. SweepLeavesOnlyDoubts'
  <2> SUFFICES ASSUME NEW d \in Call, pc[d] = "releasing" PROVE FALSE
    BY <1>0 DEF SweepLeavesOnlyDoubts, vars
  <2> QED
    BY <1>0, Solo
<1>15. RejectedInDoubt'
  <2>1. \A n \in DynId : nodes'[n].vec = nodes[n].vec
    BY <1>2, MergeRowsType DEF NodeId
  <2>2. \A d \in Call : \A p \in plan[d].rejected : Doubtful(nodes, p) => Doubtful(nodes', p)
    BY <2>1, DoubtfulSame DEF GraphTypeOK, Plan
  <2> QED
    BY <1>0, <2>2 DEF RejectedInDoubt, vars
<1> QED
  BY <1>8, <1>9, <1>10, <1>11, <1>12, <1>13, <1>14, <1>15

------------------------------------------------------------------------------
(* Seeds, which run beside everything else.                                 *)
LEMMA SeedRowsType ==
    ASSUME KInv, NEW cur \in Curriculum
    PROVE  LET rows == SeedRows(nodes, cur.text)
           IN  /\ rows \in [NodeId -> NodeRow]
               /\ \A n \in NodeId \ DOMAIN cur.text : rows[n] = nodes[n]
               /\ \A n \in DOMAIN cur.text : rows[n].status = "live"
<1> DEFINE text == cur.text
           new(n) == IF n \notin DOMAIN text THEN nodes[n]
                     ELSE IF nodes[n].status = "absent" THEN Fresh(text[n], 0)
                     ELSE [nodes[n] EXCEPT !.label = text[n], !.vec = text[n]]
<1>1. /\ DOMAIN text \subseteq OntId /\ \A n \in DOMAIN text : text[n] \in Label
      /\ MaxSal \in Nat /\ nodes \in [NodeId -> NodeRow]
      /\ \A n \in OntId : nodes[n].status \in {"absent", "live"}
  BY KeeperAssumption DEF KInv, GraphTypeOK, OntologyLives
<1>2. ASSUME NEW n \in NodeId
      PROVE  new(n) \in NodeRow /\ (n \in DOMAIN text => new(n).status = "live")
  <2>1. CASE n \notin DOMAIN text
    BY <1>1, <2>1
  <2>2. CASE n \in DOMAIN text /\ nodes[n].status = "absent"
    BY <1>1, <2>2 DEF Fresh, NodeRow, Status
  <2>3. CASE n \in DOMAIN text /\ nodes[n].status # "absent"
    BY <1>1, <2>3 DEF NodeRow
  <2> QED
    BY <2>1, <2>2, <2>3
<1>3. SeedRows(nodes, text) = [n \in NodeId |-> new(n)]
  BY DEF SeedRows
<1>4. \A n \in NodeId \ DOMAIN text : new(n) = nodes[n]
  OBVIOUS
<1>5. DOMAIN text \subseteq NodeId
  BY <1>1 DEF NodeId
<1> HIDE DEF new
<1> QED
  BY <1>2, <1>3, <1>4, <1>5

(* A seed writes its own concepts and the edges among them, under any plan  *)
(* (apply_ontology takes no lock).                                          *)
LEMMA SeedCommitStep ==
    ASSUME KInv, IInv', SeedCommit
    PROVE  KInv'
<1> USE DEF KInv
<1>0. seed \in Curriculum /\ UNCHANGED <<vars, evidence, retired, plan>> /\ seed' = NoSeed
  BY DEF SeedCommit, GraphTypeOK
<1> DEFINE text == seed.text
<1>1. DOMAIN text \subseteq OntId /\ DOMAIN text \cap DynId = {}
  BY <1>0, KeeperAssumption
<1>2. /\ nodes' \in [NodeId -> NodeRow]
      /\ \A n \in NodeId \ DOMAIN text : nodes'[n] = nodes[n]
      /\ \A n \in DOMAIN text : nodes'[n].status = "live"
  BY <1>0, SeedRowsType DEF SeedCommit
<1>3. /\ edges' \subseteq Edge /\ WellFormed(edges')
      /\ \A e \in edges' \ edges : Pair(e) \subseteq DOMAIN text
      /\ edges \subseteq Edge
  BY <1>0, Seeds DEF SeedCommit, GraphTypeOK, EdgesWellFormed, WellFormed
<1>4. \A n \in DynId : nodes'[n] = nodes[n]
  BY <1>1, <1>2 DEF NodeId
<1>5. DupPairs(nodes') = DupPairs(nodes)
  BY <1>4, DupPairsSame
<1>6. curText' = [o \in OntId |-> IF o \in DOMAIN text THEN text[o] ELSE curText[o]]
  BY DEF SeedCommit
<1> HIDE DEF text
<1>7. GraphTypeOK'
  BY <1>0, <1>2, <1>3 DEF GraphTypeOK, IInv
<1>8. EdgesWellFormed'
  <2> SUFFICES ASSUME NEW e \in edges', NEW n \in Pair(e) PROVE nodes'[n].status # "absent"
    BY <1>3 DEF EdgesWellFormed, WellFormed
  <2>1. n \in NodeId
    BY <1>3 DEF Edge, Pair
  <2> QED
    BY <1>2, <1>3, <2>1 DEF EdgesWellFormed
<1>9. RetiredIsBare'
  BY <1>0, <1>1, <1>3, <1>4 DEF RetiredIsBare, GraphTypeOK
<1>10. OntologyLives'
  BY <1>2, <1>6 DEF OntologyLives, NodeId
<1>11. EvidenceKnown' /\ PlansRun'
  BY <1>0 DEF EvidenceKnown, PlansRun, vars
<1>12. ASSUME NEW c \in Call, plan[c].stage # "none"
       PROVE  Sound(c)'
  <2>1. Sound(c)
    BY <1>12 DEF PlansSound
  <2>2. SnapshotHolds(c)'
    <3>1. ASSUME NEW n \in PlanNodes(c), n \in OntId
          PROVE  nodes'[n].status = "live"
      BY <1>2, <2>1, <3>1, KeeperAssumption DEF Sound, SnapshotHolds, NodeId
    <3>2. Live(nodes') \cap DynId = Live(nodes) \cap DynId
      BY <1>4 DEF Live
    <3>3. PlanNodes(c) \subseteq NodeId /\ PlanNodes(c)' = PlanNodes(c) /\ Working(c)' = Working(c)
      BY <1>0 DEF PlanNodes, Working
    <3>4. Live(nodes)' = Live(nodes')
      BY DEF Live
    <3> QED
      BY <1>0, <1>4, <2>1, <3>1, <3>2, <3>3, <3>4 DEF Sound, SnapshotHolds, vars, NodeId
  <2>3. TargetsLive(c)' /\ EvidencePlanned(c)' /\ NoNewTwins(c)' /\ EdgesPlanned(c)'
    BY <1>0, <1>5, <2>1 DEF Sound, TargetsLive, EvidencePlanned, NoNewTwins, EdgesPlanned,
       PlanNodes, Working, vars
  <2>4. EdgesRead(c)'
    BY <1>0, <1>1, <1>3, <2>1 DEF Sound, EdgesRead, PlanNodes
  <2> QED
    BY <2>2, <2>3, <2>4 DEF Sound
<1>13. PlansSound'
  BY <1>0, <1>12 DEF PlansSound
<1>14. RejectedInDoubt' /\ SweepLeavesOnlyDoubts'
  <2>1. \A n \in DynId : nodes'[n].vec = nodes[n].vec
    BY <1>4
  <2>2. \A p \in SUBSET DynId : Doubtful(nodes, p) => Doubtful(nodes', p)
    BY <2>1, DoubtfulSame
  <2>3. \A d \in Call : plan[d].rejected \subseteq SUBSET DynId
    BY DEF GraphTypeOK, Plan
  <2>4. DupPairs(nodes) \subseteq SUBSET DynId
    BY DEF DupPairs
  <2>5. RejectedInDoubt'
    BY <1>0, <2>2, <2>3 DEF RejectedInDoubt, vars
  <2>6. SweepLeavesOnlyDoubts'
    BY <1>0, <1>5, <2>2, <2>4 DEF SweepLeavesOnlyDoubts, vars
  <2> QED
    BY <2>5, <2>6
<1> QED
  BY <1>7, <1>8, <1>9, <1>10, <1>11, <1>13, <1>14

(* Embedding a curriculum, or failing to, writes nothing.                   *)
LEMMA SeedQuietStep ==
    ASSUME KInv, IInv', SeedStart \/ SeedFail
    PROVE  KInv'
<1>1. UNCHANGED <<vars, tables, curText, plan>> /\ seed' \in Curriculum \cup {NoSeed}
  BY DEF SeedStart, SeedFail
<1>2. RejectedInDoubt' /\ SweepLeavesOnlyDoubts'
  BY <1>1 DEF KInv, RejectedInDoubt, SweepLeavesOnlyDoubts, tables, vars
<1> QED
  BY <1>1, <1>2, QuietStep DEF vars, KInv, GraphTypeOK, PlansRun

------------------------------------------------------------------------------
(* Every graph a learner may start with is sound.                           *)
LEMMA KInitKInv == KInit => KInv
<1> SUFFICES ASSUME KInit PROVE KInv
  OBVIOUS
<1>1. PICK g \in Legacy : nodes = g.nodes /\ edges = g.edges
  BY DEF KInit
<1>2. /\ nodes \in [NodeId -> NodeRow]
      /\ \A o \in OntId : nodes[o].status \in {"absent", "live"}
      /\ edges \subseteq Edge /\ WellFormed(edges)
      /\ \A e \in edges : \A n \in Pair(e) : nodes[n].status # "absent"
  BY <1>1, KeeperAssumption
<1>3. /\ IInv /\ evidence = {} /\ retired = {} /\ seed = NoSeed
      /\ curText = [o \in OntId |-> NoSeed]
      /\ plan = [c \in Call |-> Blank] /\ \A c \in Call : pc[c] = "idle"
  BY InitIInv DEF KInit, Init
<1>4. GraphTypeOK
  BY <1>2, <1>3, BlankType DEF GraphTypeOK, IInv
<1>5. EdgesWellFormed /\ RetiredIsBare /\ OntologyLives /\ EvidenceKnown
  BY <1>2, <1>3 DEF EdgesWellFormed, RetiredIsBare, OntologyLives, EvidenceKnown
<1>6. PlansRun /\ PlansSound /\ RejectedInDoubt /\ SweepLeavesOnlyDoubts
  BY <1>3 DEF PlansRun, PlansSound, RejectedInDoubt, SweepLeavesOnlyDoubts, Blank
<1> QED
  BY <1>3, <1>4, <1>5, <1>6 DEF KInv

(* No step of the Keeper or of a seed breaks the invariant.                 *)
LEMMA KInvStep == KInv /\ [KNext]_kvars => KInv'
<1> SUFFICES ASSUME KInv, [KNext]_kvars PROVE KInv'
  OBVIOUS
<1>1. IInv'
  BY KeeperStep, InvariantStep DEF KInv
<1>2. ASSUME NEW c \in Call, Snapshot(c) \/ KBadExtraction(c) \/ Extracted(c) \/ Link(c) \/ ReadEdges(c)
      PROVE  KInv'
  BY <1>1, <1>2, SnapshotStep, BadExtractionStep, ExtractedStep, LinkStep, ReadEdgesStep
<1>3. ASSUME NEW c \in Call, Relate(c) \/ KCommit(c)
      PROVE  KInv'
  BY <1>1, <1>3, RelateStep, CommitStep
<1>4. ASSUME NEW c \in Call, SweepMerge(c) \/ SweepReject(c) \/ KSweepDone(c)
      PROVE  KInv'
  BY <1>1, <1>4, MergeStep, RejectStep, SweepDoneStep
<1>5. CASE SeedStart \/ SeedCommit \/ SeedFail
  BY <1>1, <1>5, SeedQuietStep, SeedCommitStep
<1>6. CASE \E S \in SUBSET Event : Ingest(S) /\ UNCHANGED <<tables, seedVars, plan>>
  BY <1>1, <1>6, IngestStep
<1>7. CASE \E c \in Call : Uneventful(c) /\ UNCHANGED <<tables, seedVars, plan>>
  BY <1>1, <1>7, UneventfulStep
<1>8. CASE \E c \in Call : Leave(c) /\ plan' = [plan EXCEPT ![c] = Blank]
                                    /\ UNCHANGED <<tables, seedVars>>
  BY <1>1, <1>8, LeaveStep
<1>9. CASE UNCHANGED kvars
  <2>1. RejectedInDoubt' /\ SweepLeavesOnlyDoubts'
    BY <1>9 DEF KInv, RejectedInDoubt, SweepLeavesOnlyDoubts, kvars, vars, tables
  <2> QED
    BY <1>1, <1>9, <2>1, QuietStep DEF kvars, vars, seedVars, KInv, GraphTypeOK, PlansRun
<1> QED
  BY <1>2, <1>3, <1>4, <1>5, <1>6, <1>7, <1>8, <1>9 DEF KNext

(* The inductive invariant of the Keeper.                                   *)
THEOREM KeeperInvariant == KSpec => []KInv
  BY KInitKInv, KInvStep, PTL DEF KSpec

(* Rows, plans and history keep their types.                                *)
THEOREM GraphTypeCorrect == KSpec => []GraphTypeOK
<1>1. KInv => GraphTypeOK
  BY DEF KInv
<1> QED
  BY <1>1, KeeperInvariant, PTL

(* No commit, merge or seed ever violates migrations/0004: one edge per     *)
(* pair of existing nodes, and none from a node to itself.                  *)
THEOREM GraphWellFormed == KSpec => []EdgesWellFormed
<1>1. KInv => EdgesWellFormed
  BY DEF KInv
<1> QED
  BY <1>1, KeeperInvariant, PTL

(* A node merged away keeps no edge and no evidence, and stays merged.      *)
THEOREM MergesLeaveNothing == KSpec => []RetiredIsBare
<1>1. KInv => RetiredIsBare
  BY DEF KInv
<1> QED
  BY <1>1, KeeperInvariant, PTL

(* Neither decay nor a merge takes a curriculum concept away.               *)
THEOREM CurriculumSurvives == KSpec => []CurriculumStays
<1>1. KInv => CurriculumStays
  BY DEF KInv, OntologyLives, CurriculumStays
<1> QED
  BY <1>1, KeeperInvariant, PTL

(* Across any number of merges and rejections, of crashes and of seeds      *)
(* beside it, a repair that reports its end has left no twins but pairs the *)
(* reflector decides by their vectors (keeper.repair_merges).               *)
THEOREM SweepsFinish == KSpec => []SweepLeavesOnlyDoubts
<1>1. KInv => SweepLeavesOnlyDoubts
  BY DEF KInv
<1> QED
  BY <1>1, KeeperInvariant, PTL

------------------------------------------------------------------------------
(* Steps that write the node, edge and evidence tables.                     *)
LEMMA WritingSteps ==
    ASSUME [KNext]_kvars
    PROVE  \/ \E c \in Call : KCommit(c)
           \/ \E c \in Call : SweepMerge(c)
           \/ SeedCommit
           \/ UNCHANGED <<nodes, edges, evidence, retired, stamped>>
<1>1. ASSUME NEW c \in Call,
             \/ Snapshot(c) \/ KBadExtraction(c) \/ Extracted(c) \/ Link(c) \/ ReadEdges(c)
             \/ Relate(c) \/ SweepReject(c) \/ KSweepDone(c)
      PROVE  UNCHANGED <<nodes, edges, evidence, retired, stamped>>
  BY <1>1 DEF Snapshot, KBadExtraction, BadExtraction, Extracted, Link, ReadEdges, Relate, PlanReady,
     SweepReject, KSweepDone, SweepDone, tables, vars, queueVars
<1>2. ASSUME NEW c \in Call, Uneventful(c) \/ Leave(c)
      PROVE  UNCHANGED stamped
  BY <1>2 DEF Uneventful, Begin, BeginRepair, TryLock, Skip, ReadPending, Leave, AuditFailure, Abort,
     Crash, Release, queueVars
<1>3. ASSUME NEW S \in SUBSET Event, Ingest(S)
      PROVE  UNCHANGED stamped
  BY <1>3 DEF Ingest
<1>4. ASSUME SeedStart \/ SeedFail
      PROVE  UNCHANGED <<nodes, edges, evidence, retired, stamped>>
  BY <1>4 DEF SeedStart, SeedFail, tables, vars
<1>5. UNCHANGED kvars => UNCHANGED <<nodes, edges, evidence, retired, stamped>>
  BY DEF kvars, vars, tables
<1> QED
  BY <1>1, <1>2, <1>3, <1>4, <1>5 DEF KNext, tables

(* keeper._resolve: no commit makes twins.                                  *)
THEOREM LinkingIsSafe == KSpec => LinkingMakesNoTwins
<1>1. KInv /\ [KNext]_kvars => [stamped' # stamped => DupPairs(nodes') \subseteq DupPairs(nodes)]_kvars
  <2> SUFFICES ASSUME KInv, [KNext]_kvars, stamped' # stamped
               PROVE  DupPairs(nodes') \subseteq DupPairs(nodes)
    OBVIOUS
  <2>1. PICK c \in Call : KCommit(c)
    BY WritingSteps DEF SweepMerge, SeedCommit, vars
  <2> QED
    BY <2>1, CommitTwins
<1> QED
  BY <1>1, KeeperInvariant, PTL DEF KSpec, LinkingMakesNoTwins

(* What one step of evidence keeps.                                         *)
EvidenceKept ==
    /\ {r[1] : r \in evidence} \subseteq {r[1] : r \in evidence'}
    /\ \A r, s \in evidence' : r[1] = s[1] => r = s
    /\ \A r \in evidence' : r[1] \in stamped'
    /\ \A r \in evidence' : r[1] \notin {s[1] : s \in evidence} => nodes'[r[2]].status = "live"

(* Each step keeps evidence, action by action.                              *)
LEMMA EvidenceStep ==
    ASSUME KInv, [KNext]_kvars
    PROVE  EvidenceKept
<1>1. EvidenceKnown'
  BY KInvStep DEF KInv
<1>2. CASE UNCHANGED evidence
  BY <1>1, <1>2 DEF EvidenceKept, EvidenceKnown
<1>3. ASSUME NEW c \in Call, KCommit(c)
      PROVE  EvidenceKept
  <2>1. evidence' = evidence \cup plan[c].evidence
    BY <1>3 DEF KCommit
  <2>2. EvidencePlanned(c) /\ TargetsLive(c)
    BY <1>3 DEF KInv, PlansRun, PlansSound, Sound, KCommit, Commit
  <2>3. \A r \in plan[c].evidence : nodes'[r[2]].status = "live"
    BY <1>3, <2>2, CommitRows DEF EvidencePlanned, TargetsLive, Working, Live, PlanNodes
  <2> QED
    BY <1>1, <2>1, <2>3 DEF EvidenceKept, EvidenceKnown
<1>4. ASSUME NEW c \in Call, SweepMerge(c)
      PROVE  EvidenceKept
  <2>1. PICK keep \in DynId, drop \in DynId, tie \in DynId : Merged(keep, drop, tie)
    BY <1>4, MergeOf
  <2> DEFINE to(r) == <<r[1], IF r[2] = drop THEN keep ELSE r[2]>>
  <2>2. evidence' = {to(r) : r \in evidence}
    BY <2>1 DEF Merged
  <2>3. \A r \in evidence : to(r) \in evidence' /\ to(r)[1] = r[1]
    BY <2>2
  <2>4. \A s \in evidence' : \E r \in evidence : s[1] = r[1]
    BY <2>2
  <2> HIDE DEF to
  <2>5. {r[1] : r \in evidence} \subseteq {r[1] : r \in evidence'}
    BY <2>3
  <2> QED
    BY <1>1, <2>4, <2>5 DEF EvidenceKept, EvidenceKnown
<1>5. CASE SeedCommit
  BY <1>2, <1>5 DEF SeedCommit
<1> QED
  BY <1>2, <1>3, <1>4, <1>5, WritingSteps

(* Evidence is never lost or doubled, and lands on live nodes.              *)
THEOREM EvidenceIsConserved == KSpec => EvidenceConserved
<1>1. KInv /\ [KNext]_kvars => [EvidenceKept]_kvars
  BY EvidenceStep
<1> QED
  BY <1>1, KeeperInvariant, PTL DEF KSpec, EvidenceConserved, EvidenceKept

(* What one step of the edges keeps.                                        *)
EdgesKept ==
    edges = {} \/ \E keep \in NodeId \ retired' : \A e \in edges :
        LET now == {IF n \in retired' THEN keep ELSE n : n \in Pair(e)}
        IN  \/ now = {keep}
            \/ Pair(e) \subseteq OntId
            \/ \E f \in edges' : Pair(f) = now /\ Rank[f.type] >= Rank[e.type]

(* Each step keeps or strengthens what is known of a pair.                  *)
LEMMA EdgesStep ==
    ASSUME KInv, [KNext]_kvars
    PROVE  EdgesKept
<1>0. /\ \A e \in edges : e.src \in NodeId /\ e.dst \in NodeId /\ e.type \in EdgeType
      /\ \A e \in edges, n \in retired : n \notin Pair(e)
      /\ edges \subseteq Edge /\ WellFormed(edges)
  BY DEF KInv, GraphTypeOK, RetiredIsBare, EdgesWellFormed, Edge
<1>1. ASSUME retired' = retired,
             \A e \in edges : \/ Pair(e) \subseteq OntId
                              \/ \E f \in edges' : Pair(f) = Pair(e) /\ Rank[f.type] >= Rank[e.type]
      PROVE  EdgesKept
  <2> SUFFICES ASSUME NEW x \in edges PROVE EdgesKept
    BY DEF EdgesKept
  <2>1. x.src \in NodeId \ retired'
    BY <1>0, <1>1 DEF Pair
  <2>2. \A e \in edges : {IF n \in retired' THEN x.src ELSE n : n \in Pair(e)} = Pair(e)
    BY <1>0, <1>1
  <2> QED
    BY <1>1, <2>1, <2>2 DEF EdgesKept
<1>2. CASE UNCHANGED <<edges, retired>>
  BY <1>0, <1>1, <1>2, RankType
<1>3. ASSUME NEW c \in Call, KCommit(c)
      PROVE  EdgesKept
  <2>1. retired' = retired
    BY <1>3 DEF KCommit
  <2>2. \A e \in edges : \E f \in edges' : Pair(f) = Pair(e) /\ (f = e \/ Rank[f.type] > Rank[e.type])
    BY <1>3, CommitEdges
  <2>3. \A e \in edges' : e.type \in EdgeType
    BY <1>3, CommitEdges DEF Edge
  <2>4. \A e \in edges : \E f \in edges' : Pair(f) = Pair(e) /\ Rank[f.type] >= Rank[e.type]
    BY <1>0, <2>2, <2>3, RankType
  <2> QED
    BY <1>1, <2>1, <2>4
<1>4. CASE SeedCommit
  <2>1. seed \in Curriculum /\ retired' = retired
    BY <1>4 DEF SeedCommit, KInv, GraphTypeOK
  <2>2. \A e \in edges : Pair(e) \subseteq DOMAIN seed.text \/ e \in edges'
    BY <1>0, <1>4, <2>1, Seeds DEF SeedCommit
  <2>3. DOMAIN seed.text \subseteq OntId
    BY <2>1, KeeperAssumption
  <2> QED
    BY <1>0, <1>1, <2>1, <2>2, <2>3, RankType
<1>5. ASSUME NEW c \in Call, SweepMerge(c)
      PROVE  EdgesKept
  <2>1. PICK keep \in DynId, drop \in DynId, tie \in DynId : Merged(keep, drop, tie)
    BY <1>5, MergeOf
  <2>2. /\ keep \in NodeId /\ drop \in NodeId /\ keep # drop /\ tie \in {keep, drop}
        /\ nodes[keep].status = "live"
        /\ retired' = retired \cup {drop} /\ edges' = MergeEdges(edges, keep, drop, tie)
        /\ edges \subseteq Edge /\ WellFormed(edges)
    BY <1>0, <2>1 DEF Merged, NodeId
  <2>3. keep \in NodeId \ retired'
    BY <2>2 DEF KInv, RetiredIsBare
  <2>4. Covers(edges', edges, keep, drop)
    BY <2>2, Merges
  <2>5. \A e \in edges : {IF n \in retired' THEN keep ELSE n : n \in Pair(e)}
                         = {IF n = drop THEN keep ELSE n : n \in Pair(e)}
    BY <1>0, <2>2
  <2>6. \A e \in edges : Pair(e) = {keep, drop} =>
            {IF n = drop THEN keep ELSE n : n \in Pair(e)} = {keep}
    BY <2>2
  <2> QED
    BY <2>3, <2>4, <2>5, <2>6 DEF EdgesKept, Covers
<1> QED
  BY <1>2, <1>3, <1>4, <1>5, WritingSteps

(* What is known about a pair of concepts is only ever strengthened.        *)
THEOREM EdgesAreOnlyStrengthened == KSpec => EdgesOnlyStrengthen
<1>1. KInv /\ [KNext]_kvars => [EdgesKept]_kvars
  BY EdgesStep
<1> QED
  BY <1>1, KeeperInvariant, PTL DEF KSpec, EdgesOnlyStrengthen, EdgesKept
==============================================================================
