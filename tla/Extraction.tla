------------------------------ MODULE Extraction ------------------------------
(***************************************************************************)
(* The language-model passes of one plan, Keeper._extract and what parses  *)
(* its answers.  The model may answer anything: every action that reads    *)
(* chooses the next item of the answer, or that the answer breaks off in a *)
(* value no parser expects.  Mastery and confidence are in thousandths.    *)
(***************************************************************************)
EXTENDS Integers, Sequences, FiniteSets, SequencesExt

CONSTANTS Node,        \* concepts of one learner, stored or new
          Curriculum,  \* those a host's curriculum brought
          Form,        \* labels as the model may write them
          NormOf,      \* normalize_label
          NoLetters,   \* the normal form of a label without letters
          Graphs,      \* [Node -> Form or Null]: what a learner may start with
          Number,      \* numbers the model writes as a mastery
          Null, NaN, Word,
          MaxCandidates, \* bound: candidates of one answer, of either sort
          MaxItems,    \* bound: assessments or relations in one answer
          MaxPlans     \* bound: plans

ASSUME ExtractionConstants ==
    /\ Curriculum \subseteq Node /\ Number \subseteq Int /\ NoLetters \notin Form
    /\ Null \notin Int \cup Node \cup Form /\ Graphs \subseteq [Node -> Form \cup {Null}]
    /\ {MaxCandidates, MaxItems, MaxPlans} \subseteq Nat

VARIABLES graph,       \* the learner's concepts
          run,         \* the plan under way
          plans        \* plans so far

extractVars == <<graph, run, plans>>

(* The confidence of a concept never assessed: a seed's, a new node's.      *)
Prior(n) == IF n \in Curriculum THEN 0 ELSE 300

(* low, high: history, the lowest and highest observation.                  *)
Concept(n, label) ==
    [label |-> label, mastery |-> Null, confidence |-> Prior(n), low |-> Null, high |-> Null]

Speaker == {"learner", "tutor"}

(* told: history, the assessments in the evidence pass's answer.            *)
NoRun == [stage |-> "idle", batch |-> {}, candidates |-> <<>>, asides |-> {},
          parsed |-> <<>>, told |-> <<>>, applied |-> <<>>, relations |-> {},
          lost |-> {}, work |-> [n \in Node |-> Concept(n, Null)]]

ExtractInit ==
    /\ \E g \in Graphs : graph = [n \in Node |-> Concept(n, g[n])]
    /\ run = NoRun /\ plans = 0

------------------------------------------------------------------------------
(* _as_float: numbers and numeric strings pass, words become None.          *)
AsFloat(raw) == IF raw \in Number \cup {NaN} THEN raw ELSE Null

\* Slip: a mastery beyond 0..1 is taken as it comes.
Clamp_Not(x) == IF x = NaN THEN 1000 ELSE x

Capped(x) == IF x < 0 THEN 0 ELSE IF x > 1000 THEN 1000 ELSE x

(* max(0.0, min(1.0, x)); min keeps 1.0 when x is not a number.             *)
Clamp(x) == IF x = NaN THEN 1000 ELSE Capped(x)

KindObservation ==
    [quiz_correct |-> 1000, demonstrated |-> 900, quiz_wrong |-> 0, struggle |-> 200]

Inert == {"explained", "asked_about", "note"}

Kind == DOMAIN KindObservation \cup Inert

RawEvidence ==
    [kind: Kind \cup {"no such kind"}, correct: {Null, TRUE, FALSE},
     mastery: Number \cup {Null, NaN, Word}]

(* observation_for: a signal overrides the table.                           *)
Observation(ev) ==
    IF AsFloat(ev.mastery) # Null THEN Clamp(ev.mastery)
    ELSE IF ev.correct # Null THEN (IF ev.correct THEN 1000 ELSE 0)
    ELSE IF ev.kind \in Inert THEN Null ELSE KindObservation[ev.kind]

(* _evidence: an unknown kind is dropped; of the rest the observation is    *)
(* all that moves the learner model, Null when nothing does.                *)
Observations == {Observation(ev) : ev \in {raw \in RawEvidence : raw.kind \in Kind}}

(* ewma with ewma_alpha = 0.3; the first observation is taken as it is.     *)
Ewma(old, obs) == IF old = Null THEN obs ELSE (3 * obs + 7 * old) \div 10

(* update_confidence                                                        *)
Confidence(old, mastery, obs) ==
    LET agree == mastery = Null \/ ((obs >= 500) <=> (mastery >= 500))
    IN  Capped(IF agree THEN old + 100 ELSE old - 200)

(* _apply_one_evidence                                                      *)
Learn(row, obs) ==
    IF obs = Null THEN row
    ELSE [row EXCEPT !.mastery = Ewma(@, obs),
                     !.confidence = Confidence(@, row.mastery, obs),
                     !.low = IF @ = Null \/ obs < @ THEN obs ELSE @,
                     !.high = IF @ = Null \/ obs > @ THEN obs ELSE @]

------------------------------------------------------------------------------
Norm(raw) == IF raw \in Form THEN NormOf[raw] ELSE NoLetters

Present(g) == {n \in Node : g[n].label # Null}

Labels == {run.work[n].label : n \in Present(run.work)}

(* Extraction is closed when curriculum concepts are live.                  *)
Vocabulary == Present(graph) \cap Curriculum

(* What a label of the model's resolves to: itself if it is listed, else a  *)
(* listed label of the same normal form.                                    *)
Canon(raw) ==
    IF raw \in Labels THEN {raw} ELSE {x \in Labels : Norm(x) = Norm(raw)}

(* Pending events are there and get_live_nodes has answered.                *)
Start ==
    /\ run.stage = "idle" /\ plans < MaxPlans
    /\ \E batch \in (SUBSET Speaker) \ {{}} :
         run' = [NoRun EXCEPT !.stage = "extract", !.batch = batch, !.work = graph]
    /\ plans' = plans + 1 /\ UNCHANGED graph

Goes(stage) == run.stage = stage /\ UNCHANGED <<graph, plans>>

Asking == Goes("extract") \/ Goes("repair")

Candidate(n, label, obs) == [node |-> n, label |-> label, obs |-> obs]

(* An item of "concepts" in open mode: any label, with an assessment or not.*)
ReadOpen ==
    /\ Asking /\ Vocabulary = {} /\ Len(run.candidates) < MaxCandidates
    /\ \E label \in Form, obs \in Observations :
         run' = [run EXCEPT !.candidates = Append(@, Candidate(Null, label, obs))]

(* In closed mode: a concept_id of the catalog, else the label's.  An item  *)
(* that fits neither is dropped.                                            *)
ReadClosed ==
    /\ Asking /\ Vocabulary # {} /\ Len(run.candidates) < MaxCandidates
    /\ \E id \in Node \cup {Null}, label \in Form \cup {Null}, obs \in Observations :
         LET named == IF id \in Vocabulary THEN {id}
                      ELSE {n \in Vocabulary : Norm(graph[n].label) = Norm(label)}
         IN  \E n \in named : run' = [run EXCEPT
                !.candidates = Append(@, Candidate(n, graph[n].label, obs))]

(* An item of "preferences" or "goals", which is told from the others by    *)
(* who said what its evidence quotes.                                       *)
ReadAside ==
    /\ Asking /\ Cardinality(run.asides) < MaxCandidates
    /\ \E quotes \in SUBSET run.batch : run' = [run EXCEPT !.asides = @ \cup {quotes}]

Unread(stage) == [run EXCEPT !.stage = stage, !.candidates = <<>>, !.asides = {}]

(* ExtractionError: no JSON, no object, or a section that is no list.  What *)
(* was parsed before is gone; one repair, then the audit row.               *)
Unusable ==
    \/ Goes("extract") /\ run' = Unread("repair")
    \/ Goes("repair") /\ run' = Unread("failed")

(* Any other exception leaves consolidate: a call that fails, "evidence":   *)
(* null, a kind or an id that is a list.                                    *)
Escape ==
    /\ Asking \/ Goes("link")
    /\ run' = NoRun

\* Slip: support the model invented counts whoever spoke.
FilterProvenance_Lax ==
    /\ Asking
    /\ run' = [run EXCEPT !.stage = "link",
                  !.asides = {q \in @ : "learner" \in q \/ "tutor" \notin q}]

(* filter_provenance, when the whole answer is parsed.                      *)
FilterProvenance ==
    /\ Asking
    /\ run' = [run EXCEPT !.stage = "link",
                  !.asides = {q \in @ :
                      "learner" \in q \/ ("tutor" \notin q /\ "learner" \in run.batch)}]

(* _resolve, of which module Keeper has the detail: an equal label, else    *)
(* any concept like it or a new one; the label may be adopted.              *)
Targets(cand) ==
    LET equal == {n \in Present(run.work) :
                    Norm(cand.label) # NoLetters /\ Norm(run.work[n].label) = Norm(cand.label)}
    IN  IF cand.node # Null THEN {cand.node}
        ELSE IF equal # {} THEN equal
        ELSE Node \ Curriculum

Link ==
    /\ Goes("link") /\ run.candidates # <<>>
    /\ LET cand == Head(run.candidates)
       IN  \E n \in Targets(cand) :
             \E label \in {cand.label} \cup ({run.work[n].label} \ {Null}) :
               run' = [run EXCEPT
                         !.candidates = Tail(@),
                         !.work[n] = Learn([@ EXCEPT !.label = label], cand.obs)]

Linked ==
    /\ Goes("link") /\ run.candidates = <<>>
    /\ run' = [run EXCEPT !.stage = IF Vocabulary # {} THEN "commit" ELSE "evidence"]

------------------------------------------------------------------------------
(* An item of the evidence pass that has a known kind and a listed concept. *)
(* The pass is skipped when there is no concept.                            *)
ReadEvidence ==
    /\ Goes("evidence") /\ Len(run.parsed) < MaxItems
    /\ \E raw \in Form \cup {Null}, obs \in Observations :
         \E label \in Canon(raw) :
           run' = [run EXCEPT !.parsed = Append(@, [label |-> label, obs |-> obs]),
                              !.told = Append(@, [label |-> label, obs |-> obs])]

Parsed ==
    /\ Goes("evidence")
    /\ run' = [run EXCEPT !.stage = "attribute"]

(* The answer's assessments in order; of nodes that share a label one gets  *)
(* what the label is told.                                                  *)
Attribute ==
    /\ Goes("attribute") /\ run.parsed # <<>>
    /\ LET it == Head(run.parsed)
       IN  \E n \in {m \in Node : run.work[m].label = it.label} :
             run' = [run EXCEPT !.parsed = Tail(@), !.applied = Append(@, it),
                                !.work[n] = Learn(@, it.obs)]

Attributed ==
    /\ Goes("attribute") /\ run.parsed = <<>>
    /\ run' = [run EXCEPT !.stage = "edges"]

\* Slip: what was parsed before the failure is applied.
LoseEvidence_Partly ==
    /\ Goes("evidence") /\ Labels # {}
    /\ run' = [run EXCEPT !.stage = "attribute", !.lost = @ \cup {"evidence"}]

(* Whatever goes wrong with the call or its answer: no evidence this cycle. *)
LoseEvidence ==
    /\ Goes("evidence") /\ Labels # {}
    /\ run' = [run EXCEPT !.stage = "edges", !.parsed = <<>>, !.lost = @ \cup {"evidence"}]

(* An item of the edge pass with a known type that does not join a concept  *)
(* with itself; the pass is skipped when there are not two concepts.        *)
ReadRelation ==
    /\ Goes("edges") /\ Cardinality(Present(run.work)) > 1
    /\ Cardinality(run.relations) < MaxItems
    /\ \E raw \in Form \X Form : \E x \in Canon(raw[1]), y \in Canon(raw[2]) :
         /\ x # y
         /\ run' = [run EXCEPT !.relations = @ \cup {<<x, y>>}]

RelationsDone ==
    /\ Goes("edges")
    /\ run' = [run EXCEPT !.stage = "commit"]

LoseRelations ==
    /\ Goes("edges") /\ Cardinality(Present(run.work)) > 1
    /\ run' = [run EXCEPT !.stage = "commit", !.relations = {}, !.lost = @ \cup {"edges"}]

(* apply_consolidation of the plan, or of the one audit row.                *)
Commit ==
    /\ run.stage \in {"commit", "failed"}
    /\ graph' = IF run.stage = "commit" THEN run.work ELSE graph
    /\ run' = NoRun /\ UNCHANGED plans

ExtractNext ==
    \/ Start \/ ReadOpen \/ ReadClosed \/ ReadAside \/ Unusable \/ Escape
    \/ FilterProvenance \/ Link \/ Linked
    \/ ReadEvidence \/ Parsed \/ Attribute \/ Attributed \/ LoseEvidence
    \/ ReadRelation \/ RelationsDone \/ LoseRelations \/ Commit

ExtractSpec == ExtractInit /\ [][ExtractNext]_extractVars

------------------------------------------------------------------------------
(* Whatever the model answers, a concept's mastery lies between its lowest  *)
(* and its highest assessment, all in 0..1, and is unset while there is     *)
(* none; its confidence is in 0..1 and falls below where it began only if   *)
(* some assessment passed and another failed (observation_for, ewma,        *)
(* update_confidence).                                                      *)
MasteryHonest ==
    \A n \in Node : \A row \in {graph[n], run.work[n]} :
        /\ row.confidence \in 0..1000
        /\ IF row.mastery = Null THEN row.low = Null /\ row.confidence = Prior(n)
           ELSE /\ 0 <= row.low /\ row.low <= row.mastery
                /\ row.mastery <= row.high /\ row.high <= 1000
                /\ row.confidence < Prior(n) => row.low < 500 /\ row.high >= 500

(* The evidence pass counts whole or not at all: a plan applies every       *)
(* assessment of its answer, in order, or none and says so; losing the edge *)
(* pass costs no evidence (_extract_evidence, _extract_edges).              *)
EvidenceAllOrNone ==
    run.stage \in {"edges", "commit"} =>
        /\ run.applied = IF "evidence" \in run.lost THEN <<>> ELSE run.told
        /\ "edges" \in run.lost => run.relations = {}

(* The model adds no curriculum concept, renames none and relates none in   *)
(* closed mode; in open mode its relations join two different labels of the *)
(* graph.  No preference or goal comes from a batch in which only the tutor *)
(* spoke, or out of the tutor's words alone (parse_extraction,              *)
(* parse_edge_extraction, filter_provenance).                               *)
NothingInvented ==
    run.stage \in {"edges", "commit"} =>
        /\ Vocabulary # {} =>
             /\ Present(run.work) = Present(graph) /\ run.relations = {}
             /\ \A n \in Node : run.work[n].label = graph[n].label
        /\ \A r \in run.relations : r[1] # r[2] /\ {r[1], r[2]} \subseteq Labels
        /\ \A q \in run.asides : "learner" \in run.batch /\ q # {"tutor"}
===============================================================================
