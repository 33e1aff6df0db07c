-------------------------------- MODULE Keeper --------------------------------
(***************************************************************************)
(* Consolidation and merge repair on the graph of one learner, next to     *)
(* curriculum seeds, which take no lock.  Every action of module           *)
(* Consolidation appears here with its effect on the graph.                *)
(***************************************************************************)
EXTENDS Consolidation, LearnerGraph, FiniteSets

CONSTANTS Curriculum,    \* what a host may seed: [text: [some OntIds -> Label], edges: SUBSET Edge]
          NoSeed,
          Legacy,        \* graphs a learner may already have: [nodes, edges]
          MaxCandidates, \* candidates in one answer of the extractor
          RelType,       \* edge types the edge pass proposes
          MaxRelations   \* relations in one answer of the edge pass

VARIABLES
    nodes,      \* rows of engram_nodes
    edges,      \* rows of engram_edges
    evidence,   \* rows of engram_evidence: <<event it came from, node>>
    seed,       \* the curriculum being embedded, or NoSeed
    curText,    \* history: the text last seeded for each curriculum concept
    plan,       \* what each call holds in memory
    retired     \* history: nodes that repair_merges dropped

tables   == <<nodes, edges, evidence, retired>>
seedVars == <<seed, curText>>
kvars    == <<vars, tables, seedVars, plan>>

NoRow == [Fresh(CHOOSE x \in Label : TRUE, 0) EXCEPT !.status = "absent"]

NoRows == [n \in NodeId |-> NoRow]

(* migrations/0004, and no edge from a node to itself.                      *)
WellFormed(S) ==
    /\ \A e, f \in S : Pair(e) = Pair(f) => e = f
    /\ \A e \in S : e.src # e.dst

(* The graph is one learner's.  A candidate has a label or an external id.  *)
(* What is seeded has passed validate(); what is in the database satisfies  *)
(* its constraints, and no curriculum concept was ever forgotten.           *)
ASSUME KeeperAssumption ==
    /\ \A l, m \in Learner : l = m
    /\ DynId \cap OntId = {} /\ Label \cap OntId = {} /\ Label # {}
    /\ MaxSal \in Nat
    /\ RelType \subseteq EdgeType
    /\ \A x, y \in Label : {x, y} \in Twin => KindOf[x] = KindOf[y]
    /\ \A cur \in Curriculum :
         /\ DOMAIN cur.text \subseteq OntId
         /\ \A o \in DOMAIN cur.text : cur.text[o] \in Label /\ KindOf[cur.text[o]] = "concept"
         /\ cur.edges \subseteq Edge /\ WellFormed(cur.edges)
         /\ \A e \in cur.edges : Pair(e) \subseteq DOMAIN cur.text
    /\ \A g \in Legacy :
         /\ g.nodes \in [NodeId -> NodeRow]
         /\ \A o \in OntId : g.nodes[o].status \in {"absent", "live"}
         /\ g.edges \subseteq Edge /\ WellFormed(g.edges)
         /\ \A e \in g.edges : \A n \in Pair(e) : g.nodes[n].status # "absent"

(* stage: how far _plan has come.  work: working_nodes, the snapshot as     *)
(* edited so far.  touched: the nodes this batch touched.  todo: candidates *)
(* not linked yet.  known: the edges the plan starts from.  edges: the same *)
(* with the relations reconciled.  evidence: rows to insert.  rejected:     *)
(* pairs the reflector told a repair to keep apart.                         *)
Blank == [stage |-> "none", work |-> NoRows, touched |-> {}, todo |-> {},
          known |-> {}, edges |-> {}, evidence |-> {}, rejected |-> {}]

Plan == [stage: {"none", "snapshot", "linking", "relating"},
         work: [NodeId -> NodeRow],
         touched: SUBSET NodeId,
         todo: SUBSET (Label \cup OntId),
         known: SUBSET Edge,
         edges: SUBSET Edge,
         evidence: SUBSET (Event \X NodeId),
         rejected: SUBSET SUBSET DynId]

GraphTypeOK ==
    /\ TypeOK
    /\ nodes \in [NodeId -> NodeRow]
    /\ edges \subseteq Edge
    /\ evidence \subseteq Event \X NodeId
    /\ retired \subseteq DynId
    /\ seed \in Curriculum \cup {NoSeed}
    /\ plan \in [Call -> Plan]

KInit ==
    /\ Init
    /\ \E g \in Legacy : nodes = g.nodes /\ edges = g.edges
    /\ evidence = {} /\ retired = {}
    /\ seed = NoSeed /\ curText = [o \in OntId |-> NoSeed]
    /\ plan = [c \in Call |-> Blank]

------------------------------------------------------------------------------
(* Steps that leave the graph alone.                                        *)
Uneventful(c) ==
    \/ \E l \in Learner : Begin(c, l) \/ BeginRepair(c, l) \/ Skip(c, l)
    \/ ReadPending(c)

(* Ways out of a run: what it held in memory is gone.                       *)
Leave(c) == AuditFailure(c) \/ Abort(c) \/ Crash(c) \/ Release(c)

(* get_live_nodes: the planner works on its own copies from here on.        *)
Snapshot(c) ==
    /\ pc[c] = "extracting" /\ plan[c].stage = "none"
    /\ plan' = [plan EXCEPT
           ![c].stage = "snapshot",
           ![c].work = [n \in NodeId |-> IF n \in Live(nodes) THEN nodes[n] ELSE NoRow]]
    /\ UNCHANGED <<vars, tables, seedVars>>

KBadExtraction(c) ==
    /\ plan[c].stage = "snapshot"
    /\ BadExtraction(c)
    /\ UNCHANGED <<tables, seedVars, plan>>

Working(c) == Live(plan[c].work)

Concepts(c) == {n \in Working(c) : Kind(plan[c].work, n) = "concept"}

(* Non-empty in closed mode: curriculum concepts were live in the snapshot. *)
Vocabulary(c) == Working(c) \cap OntId

Candidates(c) ==
    IF Vocabulary(c) = {} THEN Label
    ELSE Vocabulary(c) \cup {x \in Label : KindOf[x] # "concept"}

(* The extractor's answer parses.                                           *)
Extracted(c) ==
    /\ plan[c].stage = "snapshot" /\ pc[c] \in {"extracting", "repairing"}
    /\ \E S \in SUBSET Candidates(c) :
        /\ Cardinality(S) <= MaxCandidates
        /\ plan' = [plan EXCEPT ![c].stage = "linking", ![c].todo = S]
    /\ UNCHANGED <<vars, tables, seedVars>>

SameKind(c, x) == {n \in Working(c) : Kind(plan[c].work, n) = KindOf[x]}

\* Slip: the tmp nodes of the batch are not compared.
TwinNodes_NoTmp(c, x) ==
    {n \in SameKind(c, x) : nodes[n].status = "live" /\ Twins(plan[c].work[n], x, x)}

(* An equal label comes before any cosine.                                  *)
TwinNodes(c, x) ==
    LET named == {n \in SameKind(c, x) : plan[c].work[n].label = x}
    IN  IF named # {} THEN named ELSE {n \in SameKind(c, x) : Twins(plan[c].work[n], x, x)}

NearNodes(c, x) == {n \in SameKind(c, x) : Alike(plan[c].work[n], x)}

(* An id that no row and no tmp node of a plan has.                         *)
Unused(n) == nodes[n].status = "absent" /\ \A d \in Call : n \notin Working(d)

(* One candidate: by external id; else by _resolve, where an equal label or *)
(* a high cosine attaches, the band between asks the reflector, who may say *)
(* no or fail, and nothing similar creates.                                 *)
Link(c) ==
    /\ plan[c].stage = "linking"
    /\ \E x \in plan[c].todo :
        LET Attach(n) ==
                [plan EXCEPT ![c].todo = @ \ {x},
                             ![c].touched = @ \cup {n},
                             ![c].work[n].label = IF x \in Label THEN Canonical(@, x) ELSE @]
            Create(n) ==
                [plan EXCEPT ![c].todo = @ \ {x},
                             ![c].touched = @ \cup {n},
                             ![c].work[n] = Fresh(x, MaxSal)]
        IN  \/ x \in OntId /\ plan' = Attach(x)
            \/ x \in Label /\ \E n \in TwinNodes(c, x) : plan' = Attach(n)
            \/ /\ x \in Label /\ TwinNodes(c, x) = {}
               /\ \/ \E n \in NearNodes(c, x) : plan' = Attach(n)
                  \/ \E n \in DynId : Unused(n) /\ plan' = Create(n)
    /\ UNCHANGED <<vars, tables, seedVars>>

(* get_edges of the stored working nodes, then the evidence: of candidates, *)
(* and in open mode of any concept, by a pass that may fail and yield none. *)
ReadEdges(c) ==
    LET stored_ids == Working(c) \cap Live(nodes)
        about == plan[c].touched \cup (IF Vocabulary(c) = {} THEN Concepts(c) ELSE {})
    IN  /\ plan[c].stage = "linking" /\ plan[c].todo = {}
        /\ \E S \in SUBSET batch[c] : \E to \in [S -> about] :
            plan' = [plan EXCEPT
                ![c].stage = "relating",
                ![c].known = {e \in edges : Pair(e) \cap stored_ids # {}},
                ![c].evidence = {<<e, to[e]>> : e \in S},
                ![c].touched = @ \cup {to[e] : e \in S}]
        /\ UNCHANGED <<vars, tables, seedVars>>

Relations(c) ==
    IF Vocabulary(c) # {} THEN {<< >>}
    ELSE UNION {[1..n -> [src: Concepts(c), dst: Concepts(c), type: RelType]] : n \in 0..MaxRelations}

\* Slip: the curriculum is pruned like everything else.
Aged_Everything(row, n, left) ==
    IF row.status # "live" THEN row
    ELSE IF n \notin DOMAIN left THEN [row EXCEPT !.sal = IF @ = MaxSal THEN MaxSal ELSE @ + 1]
    ELSE [row EXCEPT !.sal = left[n],
                     !.status = IF left[n] = 0 THEN "forgotten" ELSE "live"]

\* Slip: a touched node's salience is not capped.
Aged_Uncapped(row, n, left) ==
    IF row.status # "live" THEN row
    ELSE IF n \notin DOMAIN left THEN [row EXCEPT !.sal = @ + 1]
    ELSE [row EXCEPT !.sal = left[n],
                     !.status = IF left[n] = 0 /\ n \in DynId THEN "forgotten" ELSE "live"]

(* _decay_and_snapshot: a touched node gains salience; another one has what *)
(* the days since last_seen_at leave of it (`left`, any amount up to all)   *)
(* and is forgotten below the floor unless it belongs to a curriculum.      *)
Aged(row, n, left) ==
    IF row.status # "live" THEN row
    ELSE IF n \notin DOMAIN left THEN [row EXCEPT !.sal = IF @ = MaxSal THEN MaxSal ELSE @ + 1]
    ELSE [row EXCEPT !.sal = left[n],
                     !.status = IF left[n] = 0 /\ n \in DynId THEN "forgotten" ELSE "live"]

(* What decay may leave of the nodes the batch did not touch.               *)
Decays(c) ==
    {left \in [Working(c) \ plan[c].touched -> 0..MaxSal] :
        \A n \in DOMAIN left : left[n] <= plan[c].work[n].sal}

(* The edge pass of open mode, reconciliation and decay complete the plan.  *)
Relate(c) ==
    /\ plan[c].stage = "relating"
    /\ PlanReady(c)
    /\ \E rels \in Relations(c), left \in Decays(c) :
        plan' = [plan EXCEPT
            ![c].edges = Reconcile(plan[c].known, rels),
            ![c].work = [n \in NodeId |-> Aged(@[n], n, left)]]
    /\ UNCHANGED <<tables, seedVars>>

(* apply_consolidation: insert the tmp nodes, write every node of the       *)
(* snapshot back, touched or not, all but its vector, and store edges and   *)
(* evidence.                                                                *)
KCommit(c) ==
    /\ Commit(c)
    /\ nodes' = [n \in NodeId |->
           LET row == plan[c].work[n]
           IN  IF row.status = "absent" THEN nodes[n]
               ELSE IF nodes[n].status = "absent" THEN row
               ELSE [row EXCEPT !.vec = nodes[n].vec]]
    /\ edges' = ApplyEdges(edges, plan[c].known, plan[c].edges)
    /\ evidence' = evidence \cup plan[c].evidence
    /\ plan' = [plan EXCEPT ![c] = Blank]
    /\ UNCHANGED <<retired, seedVars>>

------------------------------------------------------------------------------
(* _find_dup_pair: what it may still merge or ask about.  A rejected pair   *)
(* is skipped before its labels and vectors are looked at.                  *)
Unsettled(c) == (DupPairs(nodes) \cup MaybeDupPairs(nodes)) \ plan[c].rejected

\* Slip: the dropped node takes its evidence with it.
SweepMerge_LosesEvidence(c) ==
    /\ pc[c] = "sweeping"
    /\ \E p \in Unsettled(c) :
       \E keep \in p, tie \in p :
       \E drop \in p \ {keep} :
        /\ nodes' = MergeRows(nodes, keep, drop)
        /\ edges' = MergeEdges(edges, keep, drop, tie)
        /\ evidence' = {r \in evidence : r[2] # drop}
        /\ retired' = retired \cup {drop}
    /\ UNCHANGED <<vars, seedVars, plan>>

(* repair_merges, one pass: merge a duplicate pair, in one transaction.     *)
(* Creation times are not modelled, so either node may be the older one.    *)
SweepMerge(c) ==
    /\ pc[c] = "sweeping"
    /\ \E p \in Unsettled(c) :
       \E keep \in p, tie \in p :
       \E drop \in p \ {keep} :
        /\ nodes' = MergeRows(nodes, keep, drop)
        /\ edges' = MergeEdges(edges, keep, drop, tie)
        /\ evidence' = {<<r[1], IF r[2] = drop THEN keep ELSE r[2]>> : r \in evidence}
        /\ retired' = retired \cup {drop}
    /\ UNCHANGED <<vars, seedVars, plan>>

\* Slip: the reflector is asked about twins too.
SweepReject_Twins(c) ==
    /\ pc[c] = "sweeping"
    /\ \E p \in Unsettled(c) :
        plan' = [plan EXCEPT ![c].rejected = @ \cup {p}]
    /\ UNCHANGED <<vars, tables, seedVars>>

(* The reflector keeps a pair of the middle band apart, and is not asked    *)
(* again in this repair.                                                    *)
SweepReject(c) ==
    /\ pc[c] = "sweeping"
    /\ \E p \in MaybeDupPairs(nodes) \ plan[c].rejected :
        plan' = [plan EXCEPT ![c].rejected = @ \cup {p}]
    /\ UNCHANGED <<vars, tables, seedVars>>

KSweepDone(c) ==
    /\ Unsettled(c) = {}
    /\ SweepDone(c)
    /\ plan' = [plan EXCEPT ![c] = Blank]
    /\ UNCHANGED <<tables, seedVars>>

------------------------------------------------------------------------------
(* Engram.seed_ontology: embed, then one transaction.                       *)
SeedStart ==
    /\ seed = NoSeed
    /\ seed' \in Curriculum
    /\ UNCHANGED <<vars, tables, curText, plan>>

SeedCommit ==
    /\ seed # NoSeed
    /\ nodes' = SeedRows(nodes, seed.text)
    /\ edges' = SeedEdges(edges, seed)
    /\ curText' = [o \in OntId |-> IF o \in DOMAIN seed.text THEN seed.text[o] ELSE curText[o]]
    /\ seed' = NoSeed
    /\ UNCHANGED <<vars, evidence, retired, plan>>

SeedFail ==
    /\ seed # NoSeed
    /\ seed' = NoSeed
    /\ UNCHANGED <<vars, tables, curText, plan>>

KNext ==
    \/ \E S \in SUBSET Event : Ingest(S) /\ UNCHANGED <<tables, seedVars, plan>>
    \/ \E c \in Call : Uneventful(c) /\ UNCHANGED <<tables, seedVars, plan>>
    \/ \E c \in Call : Leave(c) /\ plan' = [plan EXCEPT ![c] = Blank] /\ UNCHANGED <<tables, seedVars>>
    \/ \E c \in Call : Snapshot(c) \/ KBadExtraction(c) \/ Extracted(c) \/ Link(c) \/ ReadEdges(c)
    \/ \E c \in Call : Relate(c) \/ KCommit(c)
    \/ \E c \in Call : SweepMerge(c) \/ SweepReject(c) \/ KSweepDone(c)
    \/ SeedStart \/ SeedCommit \/ SeedFail

KSpec == KInit /\ [][KNext]_kvars

------------------------------------------------------------------------------
(* migrations/0004: one edge per undirected pair, and none from a node to   *)
(* itself or to a missing one, whatever the order of plans, merges and      *)
(* seeds: no transaction is ever refused by the unique index.               *)
EdgesWellFormed ==
    WellFormed(edges) /\ \A e \in edges : \A n \in Pair(e) : nodes[n].status # "absent"

(* merge_nodes leaves nothing behind: a dropped node has no edge and no     *)
(* evidence, and no later plan brings it back.                              *)
RetiredIsBare ==
    \A n \in retired :
        /\ nodes[n].status = "merged"
        /\ \A e \in edges : n \notin Pair(e)
        /\ \A r \in evidence : r[2] # n

(* Evidence moves between nodes and is never lost or doubled, and only a    *)
(* consolidated event has any; new evidence lands on a node the learner     *)
(* still has: a batch never forgets what it is about, and never writes to a *)
(* node merged away.                                                        *)
EvidenceConserved ==
    [][/\ {r[1] : r \in evidence} \subseteq {r[1] : r \in evidence'}
       /\ \A r, s \in evidence' : r[1] = s[1] => r = s
       /\ \A r \in evidence' : r[1] \in stamped'
       /\ \A r \in evidence' : r[1] \notin {s[1] : s \in evidence}
                                   => nodes'[r[2]].status = "live"]_kvars

(* consumer-sdk.md: seeded nodes are exempt from pruning and dedup.         *)
CurriculumStays ==
    \A o \in OntId : nodes[o].status \in {"absent", "live"} /\ (curText[o] # NoSeed => nodes[o].status = "live")

(* What is known about a pair of concepts is only ever strengthened: its    *)
(* edge survives with an equal or higher rank, at the kept node when one of *)
(* the two is merged away; only a new curriculum removes edges, its own.    *)
EdgesOnlyStrengthen ==
    [][edges = {} \/ \E keep \in NodeId \ retired' : \A e \in edges :
        LET now == {IF n \in retired' THEN keep ELSE n : n \in Pair(e)}
        IN  \/ now = {keep}
            \/ Pair(e) \subseteq OntId
            \/ \E f \in edges' : Pair(f) = now /\ Rank[f.type] >= Rank[e.type]]_kvars

(* Fix #3 of the roadmap (keeper._resolve): a consolidation never leaves    *)
(* two live nodes of one type that are twins and were not before, not even  *)
(* when both come from one batch.                                           *)
LinkingMakesNoTwins ==
    [][stamped' # stamped => DupPairs(nodes') \subseteq DupPairs(nodes)]_kvars

(* A pair by whose vectors only the reflector could decide.                 *)
Doubtful(rows, p) ==
    \E x, y \in p : /\ p = {x, y} /\ rows[x].vec # rows[y].vec
                    /\ Alike(rows[x], rows[y].vec)
                    /\ {rows[x].vec, rows[y].vec} \notin Twin

(* repair_merges goes on until nothing is left to merge but what the        *)
(* reflector kept apart: the twins that a finished repair leaves are in the *)
(* middle band by their vectors, whatever labels later merges gave them;    *)
(* a pair of high cosine never survives, though merges relabel nodes and    *)
(* rejections outlive them (keeper.repair_merges, _find_dup_pair).  That no *)
(* twins are left at all is false: a pair kept apart may have one label by  *)
(* then, which _resolve would hold to be the same without asking.           *)
SweepLeavesOnlyDoubts ==
    \A c \in Call : pc[c] = "releasing" /\ report[c] = "swept" =>
        \A p \in DupPairs(nodes) : Doubtful(nodes, p)

(* Engram.seed_ontology, "a concept the learner already holds is refreshed  *)
(* (label/summary/embedding only ...)": after a curriculum edit the concept *)
(* carries the new label.                                                   *)
CurriculumTextSticks ==
    \A o \in OntId : curText[o] # NoSeed => nodes[o].label = curText[o]
==============================================================================
