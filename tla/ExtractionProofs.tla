--------------------------- MODULE ExtractionProofs ---------------------------
(***************************************************************************)
(* Mastery and confidence are what a concept's assessments allow, for any  *)
(* number of concepts, any numbers a language model may write and answers  *)
(* of any length.                                                          *)
(***************************************************************************)
EXTENDS Extraction, SequenceTheorems, TLAPS

(* 0.0 to 1.0 in thousandths                                               *)
Unit == 0..1000

Obs == Unit \cup {Null}

Label == Form \cup {Null}

Row == [label: Label, mastery: Obs, confidence: Unit, low: Obs, high: Obs]

(* What mastery m, confidence c and the extremes l and h of a concept's     *)
(* assessments have to do with each other, if c began at p; h is as honest  *)
(* as l.                                                                    *)
Agree(m, c, l, h, p) ==
    /\ m \in Obs /\ c \in Unit /\ l \in Obs /\ h \in Obs
    /\ m = Null => l = Null /\ h = Null /\ c = p
    /\ m # Null => /\ l # Null /\ h # Null
                   /\ l <= m /\ m <= h
                   /\ c < p => l < 500 /\ h >= 500

Fair(n, row) ==
    row \in Row /\ Agree(row.mastery, row.confidence, row.low, row.high, Prior(n))

FairRows(rows) == rows \in [Node -> Row] /\ \A n \in Node : Fair(n, rows[n])

Candidates == [node: Node \cup {Null}, label: Label, obs: Obs]

Assessments == [label: Label, obs: Obs]

(* The model's assessments have passed Observation before they are queued.  *)
Queued ==
    /\ run.candidates \in Seq(Candidates)
    /\ run.parsed \in Seq(Assessments)

IInv == DOMAIN run = DOMAIN NoRun /\ FairRows(graph) /\ FairRows(run.work) /\ Queued

------------------------------------------------------------------------------
(* What is missing (None) differs from every number.                        *)
LEMMA NullIsNoNumber == Null \notin Int
BY ExtractionConstants DEF ExtractionConstants

(* The bounds of Unit, for steps that keep it hidden.                       *)
LEMMA UnitBounds == \A x \in Unit : x \in 0..1000 /\ 0 <= x /\ x <= 1000
BY DEF Unit

(* max(0, min(1, x)) of a number or of what is none.                        *)
LEMMA ClampInRange ==
    ASSUME NEW x \in Number \cup {NaN}
    PROVE  Clamp(x) \in Unit
<1>1. CASE x = NaN
  BY <1>1 DEF Clamp, Unit
<1>2. CASE x # NaN
  <2>1. x \in Int
    BY <1>2, ExtractionConstants DEF ExtractionConstants
  <2> QED
    BY <1>2, <2>1 DEF Clamp, Capped, Unit
<1> QED
  BY <1>1, <1>2

(* Whatever the model wrote, an observation is none or within 0..1.         *)
LEMMA ObservationsInRange == Observations \subseteq Obs
<1> SUFFICES ASSUME NEW raw \in RawEvidence, raw.kind \in Kind
             PROVE  Observation(raw) \in Obs
  BY DEF Observations
<1>1. CASE AsFloat(raw.mastery) # Null
  <2>1. raw.mastery \in Number \cup {NaN}
    BY <1>1 DEF AsFloat
  <2>2. Clamp(raw.mastery) \in Unit
    BY <2>1, ClampInRange
  <2> QED
    BY <1>1, <2>2 DEF Observation, Obs
<1>2. CASE AsFloat(raw.mastery) = Null /\ raw.correct # Null
  BY <1>2 DEF Observation, Obs, Unit
<1>3. CASE AsFloat(raw.mastery) = Null /\ raw.correct = Null
  <2>1. CASE raw.kind \in Inert
    BY <1>3, <2>1 DEF Observation, Obs
  <2>2. CASE raw.kind \notin Inert
    <3>1. raw.kind \in {"quiz_correct", "demonstrated", "quiz_wrong", "struggle"}
      BY <2>2 DEF Kind, KindObservation
    <3>2. KindObservation[raw.kind] \in Unit
      BY <3>1 DEF KindObservation, Unit
    <3> QED
      BY <1>3, <2>2, <3>2 DEF Observation, Obs
  <2> QED
    BY <2>1, <2>2
<1> QED
  BY <1>1, <1>2, <1>3

------------------------------------------------------------------------------
Lower(l, obs) == IF l = Null \/ obs < l THEN obs ELSE l

Higher(h, obs) == IF h = Null \/ obs > h THEN obs ELSE h

(* The first assessment is taken as it is.                                  *)
LEMMA FirstAgrees ==
    ASSUME NEW c \in Unit, NEW p \in Unit, NEW obs \in Unit, Agree(Null, c, Null, Null, p)
    PROVE  Agree(Ewma(Null, obs), Confidence(c, Null, obs), Lower(Null, obs), Higher(Null, obs), p)
<1>1. Confidence(c, Null, obs) \in Unit /\ Confidence(c, Null, obs) >= c
  BY DEF Confidence, Capped, Unit
<1>2. c = p
  BY DEF Agree
<1>3. obs # Null
  BY NullIsNoNumber DEF Unit
<1> HIDE DEF Confidence
<1> QED
  BY <1>1, <1>2, <1>3 DEF Agree, Ewma, Lower, Higher, Obs, Unit

(* Every further one moves mastery to a mean of itself and the assessment,  *)
(* rounded down, and lowers confidence only when the two disagree.          *)
LEMMA NextAgrees ==
    ASSUME NEW m \in Unit, NEW c \in Unit, NEW l \in Unit, NEW h \in Unit,
           NEW p \in Unit, NEW obs \in Unit, Agree(m, c, l, h, p)
    PROVE  Agree(Ewma(m, obs), Confidence(c, m, obs), Lower(l, obs), Higher(h, obs), p)
<1>1. m # Null /\ l # Null /\ h # Null
  BY NullIsNoNumber DEF Unit
<1>2. l <= m /\ m <= h /\ (c < p => l < 500 /\ h >= 500)
  BY <1>1 DEF Agree
<1> DEFINE low == IF obs < l THEN obs ELSE l
           high == IF obs > h THEN obs ELSE h
           mean == (3 * obs + 7 * m) \div 10
           conf == IF (obs >= 500) <=> (m >= 500) THEN Capped(c + 100) ELSE Capped(c - 200)
<1>3. Ewma(m, obs) = mean /\ Lower(l, obs) = low /\ Higher(h, obs) = high
  BY <1>1 DEF Ewma, Lower, Higher
<1>4. Confidence(c, m, obs) = conf
  BY <1>1 DEF Confidence
<1>5. low \in Unit /\ high \in Unit /\ low <= l /\ low <= obs /\ high >= h /\ high >= obs
  BY DEF Unit
<1>6. mean \in Unit /\ low <= mean /\ mean <= high
  BY <1>2 DEF Unit
<1>7. conf \in Unit /\ (conf < p => low < 500 /\ high >= 500)
  <2>1. CASE (obs >= 500) <=> (m >= 500)
    <3>1. conf \in Unit /\ conf >= c
      BY <2>1 DEF Capped, Unit
    <3> HIDE DEF conf, low, high
    <3> QED
      BY <1>2, <1>5, <3>1 DEF Unit
  <2>2. CASE ~ ((obs >= 500) <=> (m >= 500))
    <3>1. conf \in Unit
      BY <2>2 DEF Capped, Unit
    <3> HIDE DEF conf, low, high
    <3> QED
      BY <1>2, <1>5, <2>2, <3>1 DEF Unit
  <2> QED
    BY <2>1, <2>2
<1> HIDE DEF low, high, mean, conf
<1>8. mean # Null /\ low # Null /\ high # Null
  BY <1>5, <1>6, NullIsNoNumber DEF Unit
<1>9. Agree(mean, conf, low, high, p)
  BY <1>5, <1>6, <1>7, <1>8 DEF Agree, Obs
<1> QED
  BY <1>3, <1>4, <1>9

(* One assessment, the first or a further one.                              *)
LEMMA AssessedAgrees ==
    ASSUME NEW m, NEW c, NEW l, NEW h, NEW p \in Unit, NEW obs \in Unit, Agree(m, c, l, h, p)
    PROVE  Agree(Ewma(m, obs), Confidence(c, m, obs), Lower(l, obs), Higher(h, obs), p)
<1>1. CASE m = Null
  <2>1. l = Null /\ h = Null /\ c \in Unit
    BY <1>1 DEF Agree
  <2> QED
    BY <1>1, <2>1, FirstAgrees
<1>2. CASE m # Null
  <2>1. m \in Unit /\ l \in Unit /\ h \in Unit /\ c \in Unit
    BY <1>2 DEF Agree, Obs
  <2> QED
    BY <2>1, NextAgrees
<1> QED
  BY <1>1, <1>2

(* _apply_one_evidence keeps a row fair.                                    *)
LEMMA LearnIsFair ==
    ASSUME NEW n \in Node, NEW row, Fair(n, row), NEW obs \in Obs
    PROVE  Fair(n, Learn(row, obs))
<1>1. CASE obs = Null
  BY <1>1 DEF Learn
<1>2. CASE obs # Null
  <2> DEFINE m == Ewma(row.mastery, obs)
             c == Confidence(row.confidence, row.mastery, obs)
             l == Lower(row.low, obs)
             h == Higher(row.high, obs)
  <2>1. row \in Row /\ obs \in Unit /\ Prior(n) \in Unit
    BY <1>2 DEF Fair, Obs, Prior, Unit
  <2>2. Learn(row, obs) =
          [label |-> row.label, mastery |-> m, confidence |-> c, low |-> l, high |-> h]
    BY <1>2, <2>1 DEF Learn, Row, Lower, Higher
  <2>3. Agree(m, c, l, h, Prior(n))
    <3>1. Agree(row.mastery, row.confidence, row.low, row.high, Prior(n))
      BY DEF Fair
    <3> QED
      BY <2>1, <3>1, AssessedAgrees
  <2>4. row.label \in Label
    BY <2>1 DEF Row
  <2> HIDE DEF m, c, l, h
  <2>5. [label |-> row.label, mastery |-> m, confidence |-> c, low |-> l, high |-> h] \in Row
    BY <2>3, <2>4 DEF Agree, Row
  <2> QED
    BY <2>2, <2>3, <2>5 DEF Fair
<1> QED
  BY <1>1, <1>2

(* A new label says nothing about mastery.                                  *)
LEMMA RelabelIsFair ==
    ASSUME NEW n \in Node, NEW row, Fair(n, row), NEW label \in Label
    PROVE  Fair(n, [row EXCEPT !.label = label])
BY DEF Fair, Row

(* A concept nobody has assessed.                                           *)
LEMMA ConceptIsFair ==
    ASSUME NEW n \in Node, NEW label \in Label
    PROVE  Fair(n, Concept(n, label))
BY DEF Fair, Agree, Row, Obs, Concept, Prior, Unit

(* Writing one fair row leaves all rows fair.                               *)
LEMMA RowsUpdated ==
    ASSUME NEW rows, FairRows(rows), NEW n \in Node, NEW row, Fair(n, row)
    PROVE  FairRows([rows EXCEPT ![n] = row])
BY DEF FairRows, Fair

(* A stored label is one somebody may have written, or none.                *)
LEMMA LabelsOfRows ==
    ASSUME NEW rows, FairRows(rows), NEW n \in Node
    PROVE  rows[n].label \in Label
BY DEF FairRows, Row

(* NoRun has its fields, an empty answer and fair rows.                     *)
LEMMA NoRunIsFair ==
    /\ NoRun.candidates = <<>> /\ NoRun.parsed = <<>>
    /\ FairRows(NoRun.work)
<1>1. \A n \in Node : Fair(n, Concept(n, Null))
  BY ConceptIsFair DEF Label
<1>2. NoRun.work = [n \in Node |-> Concept(n, Null)]
  BY DEF NoRun
<1>3. FairRows([n \in Node |-> Concept(n, Null)])
  BY <1>1 DEF FairRows, Fair
<1> QED
  BY <1>2, <1>3 DEF NoRun

(* A graph nobody has assessed is fair and nothing is queued.               *)
LEMMA InitIInv == ExtractInit => IInv
<1> SUFFICES ASSUME ExtractInit
             PROVE  IInv
  OBVIOUS
<1>1. PICK g \in Graphs : graph = [n \in Node |-> Concept(n, g[n])]
  BY DEF ExtractInit
<1>2. \A n \in Node : g[n] \in Label
  BY <1>1, ExtractionConstants DEF ExtractionConstants, Label
<1>3. \A n \in Node : Fair(n, Concept(n, g[n]))
  BY <1>2, ConceptIsFair
<1>4. FairRows(graph)
  BY <1>1, <1>3 DEF FairRows, Fair
<1>5. run = NoRun
  BY DEF ExtractInit
<1> QED
  BY <1>4, <1>5, NoRunIsFair DEF IInv, Queued

(* Reading, skipping and losing items leaves every concept as it is.        *)
LEMMA OnlyTheAnswer ==
    ASSUME IInv, UNCHANGED graph, DOMAIN run' = DOMAIN run, UNCHANGED run.work,
           run'.candidates \in Seq(Candidates), run'.parsed \in Seq(Assessments)
    PROVE  IInv'
BY DEF IInv, Queued, FairRows, Fair

(* An item of a tier-1 answer is queued with its observation in range.      *)
LEMMA ReadStep ==
    ASSUME IInv, ReadOpen \/ ReadClosed
    PROVE  IInv'
<1>1. PICK item \in Candidates : run' = [run EXCEPT !.candidates = Append(@, item)]
  <2>1. CASE ReadOpen
    <3>1. PICK label \in Form, obs \in Observations :
             run' = [run EXCEPT !.candidates = Append(@, Candidate(Null, label, obs))]
      BY <2>1 DEF ReadOpen
    <3>2. Candidate(Null, label, obs) \in Candidates
      BY ObservationsInRange DEF Candidate, Candidates, Label
    <3> QED
      BY <3>1, <3>2
  <2>2. CASE ReadClosed
    <3>1. PICK n \in Vocabulary, obs \in Observations :
             run' = [run EXCEPT !.candidates = Append(@, Candidate(n, graph[n].label, obs))]
      BY <2>2 DEF ReadClosed
    <3>2. n \in Node /\ graph[n].label \in Label
      BY LabelsOfRows DEF IInv, Vocabulary, Present
    <3>3. Candidate(n, graph[n].label, obs) \in Candidates
      BY <3>2, ObservationsInRange DEF Candidate, Candidates
    <3> QED
      BY <3>1, <3>3
  <2> QED
    BY <2>1, <2>2
<1>2. UNCHANGED graph
  BY DEF ReadOpen, ReadClosed, Asking, Goes
<1>3. {"candidates", "parsed", "work"} \subseteq DOMAIN run
  BY DEF IInv, NoRun
<1>4. /\ run'.candidates = Append(run.candidates, item) /\ run'.parsed = run.parsed
      /\ run'.work = run.work /\ DOMAIN run' = DOMAIN run
  BY <1>1, <1>3
<1>5. run'.candidates \in Seq(Candidates) /\ run'.parsed \in Seq(Assessments)
  BY <1>1, <1>4 DEF IInv, Queued
<1> QED
  BY <1>2, <1>4, <1>5, OnlyTheAnswer

(* So is an assessment of the tier-2 answer.                                *)
LEMMA ReadEvidenceStep ==
    ASSUME IInv, ReadEvidence
    PROVE  IInv'
<1>1. PICK raw \in Form \cup {Null}, obs \in Observations : \E label \in Canon(raw) :
         run' = [run EXCEPT !.parsed = Append(@, [label |-> label, obs |-> obs]),
                            !.told = Append(@, [label |-> label, obs |-> obs])]
  BY DEF ReadEvidence
<1>2. PICK label \in Canon(raw) :
         run' = [run EXCEPT !.parsed = Append(@, [label |-> label, obs |-> obs]),
                            !.told = Append(@, [label |-> label, obs |-> obs])]
  BY <1>1
<1>3. Labels \subseteq Label
  BY LabelsOfRows DEF IInv, Labels, Present
<1>4. label \in Label
  BY <1>2, <1>3 DEF Canon
<1>5. [label |-> label, obs |-> obs] \in Assessments
  BY <1>4, ObservationsInRange DEF Assessments
<1>6. {"candidates", "parsed", "work", "told"} \subseteq DOMAIN run
  BY DEF IInv, NoRun
<1>7. /\ run'.parsed = Append(run.parsed, [label |-> label, obs |-> obs])
      /\ run'.candidates = run.candidates
      /\ run'.work = run.work /\ DOMAIN run' = DOMAIN run
  BY <1>2, <1>6
<1>8. run'.candidates \in Seq(Candidates) /\ run'.parsed \in Seq(Assessments)
  BY <1>5, <1>7 DEF IInv, Queued
<1>9. UNCHANGED graph
  BY DEF ReadEvidence, Goes
<1> QED
  BY <1>7, <1>8, <1>9, OnlyTheAnswer

(* A candidate's node is relabelled and assessed.                           *)
LEMMA LinkStep ==
    ASSUME IInv, Link
    PROVE  IInv'
<1> DEFINE cand == Head(run.candidates)
<1>1. /\ cand \in Candidates /\ Tail(run.candidates) \in Seq(Candidates)
  BY DEF IInv, Queued, Link
<1>2. PICK n \in Targets(cand) :
         \E label \in {cand.label} \cup ({run.work[n].label} \ {Null}) :
           run' = [run EXCEPT !.candidates = Tail(@),
                              !.work[n] = Learn([@ EXCEPT !.label = label], cand.obs)]
  BY DEF Link
<1>3. n \in Node
  BY <1>1, <1>2 DEF Targets, Candidates, Present
<1>0. PICK label \in {cand.label} \cup ({run.work[n].label} \ {Null}) :
         run' = [run EXCEPT !.candidates = Tail(@),
                            !.work[n] = Learn([@ EXCEPT !.label = label], cand.obs)]
  BY <1>2
<1>4. label \in Label
  BY <1>1, <1>0, <1>3, LabelsOfRows DEF Candidates, IInv
<1> DEFINE row == Learn([run.work[n] EXCEPT !.label = label], cand.obs)
<1>5. Fair(n, row)
  <2>1. Fair(n, run.work[n])
    BY <1>3 DEF IInv, FairRows
  <2>2. Fair(n, [run.work[n] EXCEPT !.label = label])
    BY <1>3, <1>4, <2>1, RelabelIsFair
  <2>3. cand.obs \in Obs
    BY <1>1 DEF Candidates
  <2> QED
    BY <1>3, <2>2, <2>3, LearnIsFair
<1>6. {"candidates", "parsed", "work"} \subseteq DOMAIN run
  BY DEF IInv, NoRun
<1>7. /\ run'.work = [run.work EXCEPT ![n] = row]
      /\ run'.candidates = Tail(run.candidates)
      /\ run'.parsed = run.parsed /\ DOMAIN run' = DOMAIN run
  BY <1>0, <1>6
<1> HIDE DEF cand, row
<1>8. FairRows(run'.work)
  BY <1>3, <1>5, <1>7, RowsUpdated DEF IInv
<1>9. UNCHANGED graph
  BY DEF Link, Goes
<1> QED
  BY <1>1, <1>7, <1>8, <1>9 DEF IInv, Queued, FairRows, Fair

(* So is the node an assessment names.                                      *)
LEMMA AttributeStep ==
    ASSUME IInv, Attribute
    PROVE  IInv'
<1> DEFINE it == Head(run.parsed)
<1>1. it \in Assessments /\ Tail(run.parsed) \in Seq(Assessments)
  BY DEF IInv, Queued, Attribute
<1>2. PICK n \in Node :
         run' = [run EXCEPT !.parsed = Tail(@), !.applied = Append(@, it),
                            !.work[n] = Learn(@, it.obs)]
  BY DEF Attribute
<1> DEFINE row == Learn(run.work[n], it.obs)
<1>3. Fair(n, row)
  <2>1. Fair(n, run.work[n])
    BY <1>2 DEF IInv, FairRows
  <2>2. it.obs \in Obs
    BY <1>1 DEF Assessments
  <2> QED
    BY <1>2, <2>1, <2>2, LearnIsFair
<1>4. {"candidates", "parsed", "applied", "work"} \subseteq DOMAIN run
  BY DEF IInv, NoRun
<1>5. /\ run'.work = [run.work EXCEPT ![n] = row]
      /\ run'.parsed = Tail(run.parsed)
      /\ run'.candidates = run.candidates /\ DOMAIN run' = DOMAIN run
  BY <1>2, <1>4
<1> HIDE DEF it, row
<1>6. FairRows(run'.work)
  BY <1>2, <1>3, <1>5, RowsUpdated DEF IInv
<1>7. UNCHANGED graph
  BY DEF Attribute, Goes
<1> QED
  BY <1>1, <1>5, <1>6, <1>7 DEF IInv, Queued, FairRows, Fair

(* A plan begins with the stored rows, and what it leaves was its own.      *)
LEMMA PlanBoundaries ==
    ASSUME IInv, Start \/ Escape \/ Commit
    PROVE  IInv'
<1>1. CASE Start
  <2>1. PICK batch : run' = [NoRun EXCEPT !.stage = "extract", !.batch = batch, !.work = graph]
    BY <1>1 DEF Start
  <2>2. /\ DOMAIN run' = DOMAIN NoRun /\ run'.work = graph
        /\ run'.candidates = <<>> /\ run'.parsed = <<>>
    BY <2>1 DEF NoRun
  <2>3. UNCHANGED graph
    BY <1>1 DEF Start
  <2> QED
    BY <2>2, <2>3 DEF IInv, Queued, FairRows, Fair
<1>2. CASE Escape \/ Commit
  <2>1. run' = NoRun
    BY <1>2 DEF Escape, Commit
  <2>2. FairRows(graph')
    BY <1>2 DEF Escape, Commit, Asking, Goes, IInv
  <2> QED
    BY <2>1, <2>2, NoRunIsFair DEF IInv, Queued, FairRows, Fair
<1> QED
  BY <1>1, <1>2

(* The steps that only move on, or drop what was read.                      *)
LEMMA OtherSteps ==
    ASSUME IInv,
           \/ ReadAside \/ Unusable \/ FilterProvenance \/ Linked \/ Parsed \/ Attributed
           \/ LoseEvidence \/ ReadRelation \/ RelationsDone \/ LoseRelations
    PROVE  IInv'
<1>1. {"candidates", "asides", "parsed", "work", "stage", "relations", "lost"} \subseteq DOMAIN run
  BY DEF IInv, NoRun
<1>2. UNCHANGED graph
  BY DEF ReadAside, Unusable, FilterProvenance, Linked, Parsed, Attributed, LoseEvidence,
         ReadRelation, RelationsDone, LoseRelations, Asking, Goes
<1>3. /\ DOMAIN run' = DOMAIN run /\ run'.work = run.work
      /\ run'.candidates \in {run.candidates, <<>>} /\ run'.parsed \in {run.parsed, <<>>}
  <2>1. CASE ReadAside \/ FilterProvenance
    BY <1>1, <2>1 DEF ReadAside, FilterProvenance
  <2>2. CASE Unusable
    BY <1>1, <2>2 DEF Unusable, Unread
  <2>3. CASE Linked \/ Parsed \/ Attributed \/ LoseEvidence
    BY <1>1, <2>3 DEF Linked, Parsed, Attributed, LoseEvidence
  <2>4. CASE ReadRelation \/ RelationsDone \/ LoseRelations
    BY <1>1, <2>4 DEF ReadRelation, RelationsDone, LoseRelations
  <2> QED
    BY <2>1, <2>2, <2>3, <2>4
<1>4. run'.candidates \in Seq(Candidates) /\ run'.parsed \in Seq(Assessments)
  <2>1. run.candidates \in Seq(Candidates) /\ run.parsed \in Seq(Assessments)
    BY DEF IInv, Queued
  <2>2. <<>> \in Seq(Candidates) /\ <<>> \in Seq(Assessments)
    OBVIOUS
  <2> QED
    BY <1>3, <2>1, <2>2
<1> QED
  BY <1>2, <1>3, <1>4, OnlyTheAnswer

(* The rows of every reachable state are fair.                              *)
THEOREM RowsStayFair == ExtractSpec => []IInv
<1>1. IInv /\ [ExtractNext]_extractVars => IInv'
  <2> SUFFICES ASSUME IInv, [ExtractNext]_extractVars
               PROVE  IInv'
    OBVIOUS
  <2>1. CASE UNCHANGED extractVars
    BY <2>1 DEF extractVars, IInv, Queued, FairRows, Fair
  <2>2. CASE ReadOpen \/ ReadClosed
    BY <2>2, ReadStep
  <2>3. CASE ReadEvidence
    BY <2>3, ReadEvidenceStep
  <2>4. CASE Link
    BY <2>4, LinkStep
  <2>5. CASE Attribute
    BY <2>5, AttributeStep
  <2>6. CASE Start \/ Escape \/ Commit
    BY <2>6, PlanBoundaries
  <2>7. CASE \/ ReadAside \/ Unusable \/ FilterProvenance \/ Linked \/ Parsed \/ Attributed
             \/ LoseEvidence \/ ReadRelation \/ RelationsDone \/ LoseRelations
    BY <2>7, OtherSteps
  <2> QED
    BY <2>1, <2>2, <2>3, <2>4, <2>5, <2>6, <2>7 DEF ExtractNext
<1> QED
  BY <1>1, InitIInv, PTL DEF ExtractSpec

(* A concept's mastery lies between its lowest and highest assessment and   *)
(* its confidence falls only for a disagreement, whatever the model says    *)
(* (observation_for, ewma, update_confidence).                              *)
THEOREM MasteryStaysHonest == ExtractSpec => []MasteryHonest
<1>1. IInv => MasteryHonest
  <2> SUFFICES ASSUME IInv, NEW n \in Node, NEW row \in {graph[n], run.work[n]}
               PROVE  /\ row.confidence \in 0..1000
                      /\ IF row.mastery = Null THEN row.low = Null /\ row.confidence = Prior(n)
                         ELSE /\ 0 <= row.low /\ row.low <= row.mastery
                              /\ row.mastery <= row.high /\ row.high <= 1000
                              /\ row.confidence < Prior(n) => row.low < 500 /\ row.high >= 500
    BY DEF MasteryHonest
  <2>1. Agree(row.mastery, row.confidence, row.low, row.high, Prior(n))
    BY DEF IInv, FairRows, Fair
  <2>2. CASE row.mastery = Null
    BY <2>1, <2>2 DEF Agree, Unit
  <2>3. CASE row.mastery # Null
    <3>1. /\ row.mastery \in Unit /\ row.low \in Unit /\ row.high \in Unit
          /\ row.confidence \in Unit
      BY <2>1, <2>3 DEF Agree, Obs
    <3>2. /\ row.low <= row.mastery /\ row.mastery <= row.high
          /\ row.confidence < Prior(n) => row.low < 500 /\ row.high >= 500
      BY <2>1, <2>3 DEF Agree
    <3>3. 0 <= row.low /\ row.high <= 1000 /\ row.confidence \in 0..1000
      BY <3>1, UnitBounds
    <3> QED
      BY <2>3, <3>2, <3>3
  <2> QED
    BY <2>2, <2>3
<1> QED
  BY <1>1, RowsStayFair, PTL

------------------------------------------------------------------------------
Stages == {"idle", "extract", "repair", "failed", "link",
           "evidence", "attribute", "edges", "commit"}

(* What the evidence pass was told is queued, or applied from the front.    *)
EvidenceInStep ==
    /\ run.stage \in Stages
    /\ run.told \in Seq(Assessments) /\ run.applied \in Seq(Assessments)
    /\ run.stage \in {"idle", "extract", "repair", "failed", "link"} => run.told = <<>>
    /\ run.stage \notin {"attribute", "edges", "commit"} =>
         run.applied = <<>> /\ run.parsed = run.told
    /\ run.stage = "attribute" => run.told = run.applied \o run.parsed
    /\ run.stage \notin {"edges", "commit"} => run.lost = {} /\ run.relations = {}
    /\ run.stage = "edges" => "edges" \notin run.lost
    /\ EvidenceAllOrNone

(* Candidates of the catalog, with the label the catalog has.               *)
Listed == {c \in Candidates : c.node \in Vocabulary /\ c.label = graph[c.node].label}

(* In closed mode a plan holds the graph's labels and links nothing else.   *)
ClosedMode ==
    Vocabulary # {} =>
        /\ run.stage \notin {"evidence", "attribute", "edges"} /\ run.relations = {}
        /\ run.stage # "idle" => /\ run.candidates \in Seq(Listed)
                                 /\ \A n \in Node : run.work[n].label = graph[n].label

RelationsJoin == \A r \in run.relations : r[1] # r[2] /\ {r[1], r[2]} \subseteq Labels

(* Nobody but the batch's speakers is quoted; from "link" on the filter has *)
(* seen every aside.                                                        *)
AsidesSupported ==
    /\ run.asides \subseteq SUBSET run.batch
    /\ run.stage \notin {"idle", "extract", "repair", "failed"} =>
         \A q \in run.asides : "learner" \in run.batch /\ q # {"tutor"}

EInv == IInv /\ EvidenceInStep /\ ClosedMode /\ RelationsJoin /\ AsidesSupported

(* The fields of a plan.                                                    *)
LEMMA PlanFields ==
    ASSUME IInv
    PROVE  DOMAIN run = {"stage", "batch", "candidates", "asides", "parsed", "told",
                         "applied", "relations", "lost", "work"}
BY DEF IInv, NoRun

(* The parts of EInv that a step with this answer, work and graph leaves.   *)
LEMMA SameWork ==
    ASSUME UNCHANGED graph, UNCHANGED run.work
    PROVE  UNCHANGED <<Vocabulary, Labels, Listed>>
BY DEF Vocabulary, Labels, Listed, Present

(* A plan begins with nothing, and with the stored labels.                  *)
LEMMA PlanBegins ==
    ASSUME EInv, Start
    PROVE  (EvidenceInStep /\ ClosedMode /\ RelationsJoin /\ AsidesSupported)'
<1>1. PICK batch \in (SUBSET Speaker) \ {{}} :
         run' = [NoRun EXCEPT !.stage = "extract", !.batch = batch, !.work = graph]
  BY DEF Start
<1>2. /\ run'.stage = "extract" /\ run'.batch = batch /\ run'.work = graph
      /\ run'.candidates = <<>> /\ run'.asides = {} /\ run'.parsed = <<>> /\ run'.told = <<>>
      /\ run'.applied = <<>> /\ run'.relations = {} /\ run'.lost = {}
  BY <1>1 DEF NoRun
<1>3. UNCHANGED graph
  BY DEF Start
<1>4. <<>> \in Seq(Assessments) /\ <<>> \in Seq(Listed')
  OBVIOUS
<1>5. EvidenceInStep'
  BY <1>2, <1>4 DEF EvidenceInStep, Stages, EvidenceAllOrNone
<1>6. ClosedMode'
  BY <1>2, <1>3, <1>4 DEF ClosedMode
<1> QED
  BY <1>2, <1>5, <1>6 DEF RelationsJoin, AsidesSupported

(* It ends with nothing.                                                    *)
LEMMA PlanEnds ==
    ASSUME run' = NoRun
    PROVE  (EvidenceInStep /\ ClosedMode /\ RelationsJoin /\ AsidesSupported)'
<1>2. /\ run'.stage = "idle" /\ run'.batch = {}
      /\ run'.candidates = <<>> /\ run'.asides = {} /\ run'.parsed = <<>> /\ run'.told = <<>>
      /\ run'.applied = <<>> /\ run'.relations = {} /\ run'.lost = {}
  BY DEF NoRun
<1>4. <<>> \in Seq(Assessments)
  OBVIOUS
<1>5. EvidenceInStep'
  BY <1>2, <1>4 DEF EvidenceInStep, Stages, EvidenceAllOrNone
<1>6. ClosedMode'
  BY <1>2 DEF ClosedMode
<1> QED
  BY <1>2, <1>5, <1>6 DEF RelationsJoin, AsidesSupported

(* A candidate of a closed answer is one of the catalog's.                  *)
LEMMA ReadingKeepsMode ==
    ASSUME EInv, ReadOpen \/ ReadClosed
    PROVE  (EvidenceInStep /\ ClosedMode /\ RelationsJoin /\ AsidesSupported)'
<1>1. PICK item \in Candidates : /\ run' = [run EXCEPT !.candidates = Append(@, item)]
                                 /\ Vocabulary # {} => item \in Listed
  <2>1. CASE ReadOpen
    <3>1. PICK label \in Form, obs \in Observations :
             run' = [run EXCEPT !.candidates = Append(@, Candidate(Null, label, obs))]
      BY <2>1 DEF ReadOpen
    <3>2. Candidate(Null, label, obs) \in Candidates
      BY ObservationsInRange DEF Candidate, Candidates, Label
    <3> QED
      BY <2>1, <3>1, <3>2 DEF ReadOpen
  <2>2. CASE ReadClosed
    <3>1. PICK n \in Vocabulary, obs \in Observations :
             run' = [run EXCEPT !.candidates = Append(@, Candidate(n, graph[n].label, obs))]
      BY <2>2 DEF ReadClosed
    <3>2. n \in Node /\ graph[n].label \in Label
      BY LabelsOfRows DEF EInv, IInv, Vocabulary, Present
    <3>3. Candidate(n, graph[n].label, obs) \in Candidates
      BY <3>2, ObservationsInRange DEF Candidate, Candidates
    <3>4. Candidate(n, graph[n].label, obs) \in Listed
      BY <3>3 DEF Candidate, Listed
    <3> QED
      BY <3>1, <3>3, <3>4
  <2> QED
    BY <2>1, <2>2
<1>2. UNCHANGED graph /\ run.stage \in {"extract", "repair"}
  BY DEF ReadOpen, ReadClosed, Asking, Goes
<1>3. /\ run'.candidates = Append(run.candidates, item)
      /\ UNCHANGED <<run.stage, run.batch, run.asides, run.parsed, run.told, run.applied,
                     run.relations, run.lost, run.work>>
  BY <1>1, PlanFields DEF EInv
<1>4. UNCHANGED <<Vocabulary, Labels, Listed>>
  BY <1>2, <1>3, SameWork
<1>5. ClosedMode'
  BY <1>1, <1>2, <1>3, <1>4 DEF EInv, ClosedMode
<1> QED
  BY <1>2, <1>3, <1>4, <1>5
  DEF EInv, EvidenceInStep, EvidenceAllOrNone, RelationsJoin, AsidesSupported

(* The rest of the first pass: asides, repairs, the filter.                 *)
LEMMA AnsweringKeepsMode ==
    ASSUME EInv, ReadAside \/ Unusable \/ FilterProvenance
    PROVE  (EvidenceInStep /\ ClosedMode /\ RelationsJoin /\ AsidesSupported)'
<1>1. UNCHANGED graph /\ run.stage \in {"extract", "repair"}
  BY DEF ReadAside, Unusable, FilterProvenance, Asking, Goes
<1>2. /\ run'.stage \in {"extract", "repair", "failed", "link"}
      /\ run'.candidates \in {run.candidates, <<>>}
      /\ UNCHANGED <<run.batch, run.parsed, run.told, run.applied,
                     run.relations, run.lost, run.work>>
  <2>1. CASE ReadAside
    BY <1>1, <2>1, PlanFields DEF EInv, ReadAside
  <2>2. CASE Unusable
    BY <2>2, PlanFields DEF EInv, Unusable, Unread
  <2>3. CASE FilterProvenance
    BY <2>3, PlanFields DEF EInv, FilterProvenance
  <2> QED
    BY <2>1, <2>2, <2>3
<1>3. AsidesSupported'
  <2>1. CASE ReadAside
    BY <1>1, <2>1, PlanFields DEF EInv, ReadAside, AsidesSupported
  <2>2. CASE Unusable
    BY <2>2, PlanFields DEF EInv, Unusable, Unread, AsidesSupported
  <2>3. CASE FilterProvenance
    <3>1. run'.asides = {q \in run.asides :
                           "learner" \in q \/ ("tutor" \notin q /\ "learner" \in run.batch)}
      BY <2>3, PlanFields DEF EInv, FilterProvenance
    <3> QED
      BY <1>2, <3>1 DEF EInv, AsidesSupported
  <2> QED
    BY <2>1, <2>2, <2>3
<1>4. UNCHANGED <<Vocabulary, Labels, Listed>>
  BY <1>1, <1>2, SameWork
<1>5. <<>> \in Seq(Listed)
  OBVIOUS
<1>6. ClosedMode'
  BY <1>1, <1>2, <1>4, <1>5 DEF EInv, ClosedMode
<1>7. EvidenceInStep'
  BY <1>1, <1>2 DEF EInv, EvidenceInStep, EvidenceAllOrNone, Stages
<1> QED
  BY <1>2, <1>3, <1>4, <1>6, <1>7 DEF EInv, RelationsJoin

(* In closed mode linking finds the concept the candidate names, and leaves *)
(* it its label.                                                            *)
LEMMA LinkKeepsMode ==
    ASSUME EInv, Link
    PROVE  (EvidenceInStep /\ ClosedMode /\ RelationsJoin /\ AsidesSupported)'
<1> DEFINE cand == Head(run.candidates)
<1>1. /\ UNCHANGED graph /\ run.stage = "link" /\ run.candidates # <<>>
      /\ cand \in Candidates
  BY DEF Link, Goes, EInv, IInv, Queued
<1>2. PICK n \in Targets(cand) :
         \E label \in {cand.label} \cup ({run.work[n].label} \ {Null}) :
           run' = [run EXCEPT !.candidates = Tail(@),
                              !.work[n] = Learn([@ EXCEPT !.label = label], cand.obs)]
  BY DEF Link
<1>3. PICK label \in {cand.label} \cup ({run.work[n].label} \ {Null}) :
           run' = [run EXCEPT !.candidates = Tail(@),
                              !.work[n] = Learn([@ EXCEPT !.label = label], cand.obs)]
  BY <1>2
<1>4. n \in Node
  BY <1>1, <1>2 DEF Targets, Candidates, Present
<1> DEFINE row == Learn([run.work[n] EXCEPT !.label = label], cand.obs)
<1>5. row.label = label
  <2>1. run.work[n] \in Row
    BY <1>4 DEF EInv, IInv, FairRows
  <2> QED
    BY <2>1 DEF Learn, Row
<1>6. /\ run'.work = [run.work EXCEPT ![n] = row]
      /\ run'.candidates = Tail(run.candidates)
      /\ UNCHANGED <<run.stage, run.batch, run.asides, run.parsed, run.told, run.applied,
                     run.relations, run.lost>>
  BY <1>3, PlanFields DEF EInv
<1> HIDE DEF row
<1>7. Vocabulary' = Vocabulary /\ Listed' = Listed
  BY <1>1 DEF Vocabulary, Listed, Present
<1>8. ClosedMode'
  <2> SUFFICES ASSUME Vocabulary # {}
               PROVE  /\ run'.stage \notin {"evidence", "attribute", "edges"}
                      /\ run'.relations = {}
                      /\ run'.candidates \in Seq(Listed)
                      /\ \A m \in Node : run'.work[m].label = graph[m].label
    BY <1>1, <1>7 DEF ClosedMode
  <2>1. /\ run.candidates \in Seq(Listed) /\ run.relations = {}
        /\ \A m \in Node : run.work[m].label = graph[m].label
    BY <1>1 DEF EInv, ClosedMode
  <2>2. cand \in Listed /\ Tail(run.candidates) \in Seq(Listed)
    BY <1>1, <2>1
  <2>3. cand.node \in Node /\ cand.label = graph[cand.node].label
    BY <2>2 DEF Listed, Vocabulary, Present
  <2>4. cand.node # Null
    BY <2>3, ExtractionConstants DEF ExtractionConstants
  <2>5. n = cand.node
    BY <1>2, <2>4 DEF Targets
  <2>6. label = graph[n].label
    BY <1>3, <1>4, <2>1, <2>3, <2>5
  <2>7. run.work \in [Node -> Row]
    BY DEF EInv, IInv, FairRows
  <2>8. \A m \in Node : run'.work[m].label = graph[m].label
    BY <1>4, <1>5, <1>6, <2>1, <2>6, <2>7
  <2> QED
    BY <1>1, <1>6, <2>1, <2>2, <2>8
<1>9. run'.relations = {}
  BY <1>1, <1>6 DEF EInv, EvidenceInStep
<1> QED
  BY <1>1, <1>6, <1>8, <1>9
  DEF EInv, EvidenceInStep, EvidenceAllOrNone, RelationsJoin, AsidesSupported

(* Closed mode ends with linking; open mode goes on to the evidence pass.   *)
LEMMA LinkedKeepsMode ==
    ASSUME EInv, Linked
    PROVE  (EvidenceInStep /\ ClosedMode /\ RelationsJoin /\ AsidesSupported)'
<1>1. /\ UNCHANGED graph /\ run.stage = "link"
      /\ run'.stage = IF Vocabulary # {} THEN "commit" ELSE "evidence"
      /\ UNCHANGED <<run.batch, run.candidates, run.asides, run.parsed, run.told, run.applied,
                     run.relations, run.lost, run.work>>
  BY PlanFields DEF EInv, Linked, Goes
<1>2. UNCHANGED <<Vocabulary, Labels, Listed>>
  BY <1>1, SameWork
<1>3. EvidenceInStep'
  BY <1>1 DEF EInv, EvidenceInStep, EvidenceAllOrNone, Stages
<1>4. ClosedMode'
  BY <1>1, <1>2 DEF EInv, ClosedMode
<1> QED
  BY <1>1, <1>2, <1>3, <1>4 DEF EInv, RelationsJoin, AsidesSupported

(* The evidence pass: what it is told, it queues.                           *)
LEMMA TellingKeepsStep ==
    ASSUME EInv, ReadEvidence
    PROVE  (EvidenceInStep /\ ClosedMode /\ RelationsJoin /\ AsidesSupported)'
<1>1. PICK raw \in Form \cup {Null}, obs \in Observations : \E label \in Canon(raw) :
         run' = [run EXCEPT !.parsed = Append(@, [label |-> label, obs |-> obs]),
                            !.told = Append(@, [label |-> label, obs |-> obs])]
  BY DEF ReadEvidence
<1>2. PICK label \in Canon(raw) :
         run' = [run EXCEPT !.parsed = Append(@, [label |-> label, obs |-> obs]),
                            !.told = Append(@, [label |-> label, obs |-> obs])]
  BY <1>1
<1> DEFINE it == [label |-> label, obs |-> obs]
<1>3. it \in Assessments
  <2>1. Labels \subseteq Label
    BY LabelsOfRows DEF EInv, IInv, Labels, Present
  <2> QED
    BY <2>1, ObservationsInRange DEF Canon, Assessments
<1>4. /\ run'.parsed = Append(run.parsed, it) /\ run'.told = Append(run.told, it)
      /\ UNCHANGED <<run.stage, run.batch, run.candidates, run.asides, run.applied,
                     run.relations, run.lost, run.work>>
  BY <1>2, PlanFields DEF EInv
<1>5. UNCHANGED graph /\ run.stage = "evidence"
  BY DEF ReadEvidence, Goes
<1> HIDE DEF it
<1>6. UNCHANGED <<Vocabulary, Labels, Listed>>
  BY <1>4, <1>5, SameWork
<1>7. EvidenceInStep'
  BY <1>3, <1>4, <1>5 DEF EInv, EvidenceInStep, EvidenceAllOrNone
<1> QED
  BY <1>4, <1>5, <1>6, <1>7 DEF EInv, ClosedMode, RelationsJoin, AsidesSupported

(* The first of what is queued becomes the last of what is applied.         *)
LEMMA FirstMoves ==
    ASSUME NEW S, NEW a \in Seq(S), NEW p \in Seq(S), p # <<>>
    PROVE  /\ Append(a, Head(p)) \in Seq(S)
           /\ Append(a, Head(p)) \o Tail(p) = a \o p
<1>1. Head(p) \in S /\ <<Head(p)>> \in Seq(S) /\ Tail(p) \in Seq(S)
  OBVIOUS
<1>2. Append(a, Head(p)) = a \o <<Head(p)>>
  BY <1>1, AppendIsConcat
<1>3. p = <<Head(p)>> \o Tail(p)
  OBVIOUS
<1>4. (a \o <<Head(p)>>) \o Tail(p) = a \o (<<Head(p)>> \o Tail(p))
  BY <1>1, ConcatAssociative
<1>5. Append(a, Head(p)) \in Seq(S)
  BY <1>1
<1> QED
  BY <1>2, <1>3, <1>4, <1>5

(* Applying moves the first of what is queued.                              *)
LEMMA ApplyingKeepsStep ==
    ASSUME EInv, Attribute
    PROVE  (EvidenceInStep /\ ClosedMode /\ RelationsJoin /\ AsidesSupported)'
<1> DEFINE it == Head(run.parsed)
<1>1. /\ UNCHANGED graph /\ run.stage = "attribute" /\ run.parsed # <<>>
      /\ it \in Assessments /\ Tail(run.parsed) \in Seq(Assessments)
  BY DEF Attribute, Goes, EInv, IInv, Queued
<1>2. PICK n \in Node :
         run' = [run EXCEPT !.parsed = Tail(@), !.applied = Append(@, it),
                            !.work[n] = Learn(@, it.obs)]
  BY DEF Attribute
<1>3. /\ run'.parsed = Tail(run.parsed) /\ run'.applied = Append(run.applied, it)
      /\ UNCHANGED <<run.stage, run.batch, run.candidates, run.asides, run.told,
                     run.relations, run.lost>>
  BY <1>2, PlanFields DEF EInv
<1>4. /\ Append(run.applied, it) \in Seq(Assessments)
      /\ Append(run.applied, it) \o Tail(run.parsed) = run.applied \o run.parsed
  <2>1. run.applied \in Seq(Assessments) /\ run.parsed \in Seq(Assessments)
    BY DEF EInv, IInv, Queued, EvidenceInStep
  <2> QED
    BY <1>1, <2>1, FirstMoves
<1> HIDE DEF it
<1>5. EvidenceInStep'
  <2>1. run'.applied \in Seq(Assessments) /\ run'.told = run'.applied \o run'.parsed
    BY <1>1, <1>3, <1>4 DEF EInv, EvidenceInStep
  <2> QED
    BY <1>1, <1>3, <2>1 DEF EInv, EvidenceInStep, EvidenceAllOrNone
<1>6. Vocabulary' = {} /\ run'.relations = {}
  BY <1>1, <1>3 DEF EInv, EvidenceInStep, ClosedMode, Vocabulary, Present
<1> QED
  BY <1>1, <1>3, <1>5, <1>6 DEF EInv, ClosedMode, RelationsJoin, AsidesSupported

(* The passes end, whole or lost.                                           *)
LEMMA PassesKeepStep ==
    ASSUME EInv, Parsed \/ Attributed \/ LoseEvidence \/ RelationsDone \/ LoseRelations
    PROVE  (EvidenceInStep /\ ClosedMode /\ RelationsJoin /\ AsidesSupported)'
<1>1. UNCHANGED graph /\ run.stage \in {"evidence", "attribute", "edges"}
  BY DEF Parsed, Attributed, LoseEvidence, RelationsDone, LoseRelations, Goes
<1>2. /\ run'.stage \in {"attribute", "edges", "commit"}
      /\ run'.relations \in {run.relations, {}}
      /\ UNCHANGED <<run.batch, run.candidates, run.asides, run.told, run.applied, run.work>>
  BY PlanFields DEF EInv, Parsed, Attributed, LoseEvidence, RelationsDone, LoseRelations
<1>3. EvidenceInStep'
  <2>1. CASE Parsed
    BY <2>1, PlanFields, ConcatEmptySeq
    DEF EInv, IInv, Queued, EvidenceInStep, EvidenceAllOrNone, Stages, Parsed, Goes
  <2>2. CASE Attributed
    BY <2>2, PlanFields, ConcatEmptySeq
    DEF EInv, IInv, Queued, EvidenceInStep, EvidenceAllOrNone, Stages, Attributed, Goes
  <2>3. CASE LoseEvidence
    BY <2>3, PlanFields
    DEF EInv, EvidenceInStep, EvidenceAllOrNone, Stages, LoseEvidence, Goes
  <2>4. CASE RelationsDone
    BY <2>4, PlanFields
    DEF EInv, EvidenceInStep, EvidenceAllOrNone, Stages, RelationsDone, Goes
  <2>5. CASE LoseRelations
    BY <2>5, PlanFields
    DEF EInv, EvidenceInStep, EvidenceAllOrNone, Stages, LoseRelations, Goes
  <2> QED
    BY <2>1, <2>2, <2>3, <2>4, <2>5
<1>4. UNCHANGED <<Vocabulary, Labels, Listed>>
  BY <1>1, <1>2, SameWork
<1>5. Vocabulary' = {}
  BY <1>1, <1>4 DEF EInv, ClosedMode
<1> QED
  BY <1>1, <1>2, <1>3, <1>4, <1>5 DEF EInv, ClosedMode, RelationsJoin, AsidesSupported

(* A relation read joins two different labels of the graph.                 *)
LEMMA RelatingKeepsStep ==
    ASSUME EInv, ReadRelation
    PROVE  (EvidenceInStep /\ ClosedMode /\ RelationsJoin /\ AsidesSupported)'
<1>1. PICK raw \in Form \X Form : \E x \in Canon(raw[1]), y \in Canon(raw[2]) :
         /\ x # y
         /\ run' = [run EXCEPT !.relations = @ \cup {<<x, y>>}]
  BY DEF ReadRelation
<1>2. PICK x \in Labels, y \in Labels :
         /\ x # y
         /\ run' = [run EXCEPT !.relations = @ \cup {<<x, y>>}]
  BY <1>1 DEF Canon
<1>3. /\ run'.relations = run.relations \cup {<<x, y>>}
      /\ UNCHANGED <<run.stage, run.batch, run.candidates, run.asides, run.parsed, run.told,
                     run.applied, run.lost, run.work>>
  BY <1>2, PlanFields DEF EInv
<1>4. UNCHANGED graph /\ run.stage = "edges"
  BY DEF ReadRelation, Goes
<1>5. UNCHANGED <<Vocabulary, Labels, Listed>>
  BY <1>3, <1>4, SameWork
<1>6. RelationsJoin'
  BY <1>2, <1>3, <1>5 DEF EInv, RelationsJoin
<1>7. Vocabulary' = {}
  BY <1>4, <1>5 DEF EInv, ClosedMode
<1>8. EvidenceInStep'
  BY <1>3, <1>4 DEF EInv, EvidenceInStep, EvidenceAllOrNone
<1> QED
  BY <1>3, <1>4, <1>6, <1>7, <1>8 DEF EInv, ClosedMode, AsidesSupported

(* What a plan has read, linked and applied stays in step with its answer.  *)
THEOREM PlansKeepStep == ExtractSpec => []EInv
<1>1. ExtractInit => EInv
  <2>1. ExtractInit => run = NoRun
    BY DEF ExtractInit
  <2>2. run = NoRun => EvidenceInStep /\ ClosedMode /\ RelationsJoin /\ AsidesSupported
    <3> SUFFICES ASSUME run = NoRun
                 PROVE  EvidenceInStep /\ ClosedMode /\ RelationsJoin /\ AsidesSupported
      OBVIOUS
    <3>1. /\ run.stage = "idle" /\ run.batch = {}
          /\ run.asides = {} /\ run.parsed = <<>> /\ run.told = <<>>
          /\ run.applied = <<>> /\ run.relations = {} /\ run.lost = {}
      BY DEF NoRun
    <3>2. <<>> \in Seq(Assessments)
      OBVIOUS
    <3> QED
      BY <3>1, <3>2 DEF EvidenceInStep, EvidenceAllOrNone, Stages, ClosedMode, RelationsJoin,
                        AsidesSupported
  <2> QED
    BY <2>1, <2>2, InitIInv DEF EInv
<1>2. EInv /\ [ExtractNext]_extractVars => (EvidenceInStep /\ ClosedMode /\ RelationsJoin /\ AsidesSupported)'
  <2> SUFFICES ASSUME EInv, [ExtractNext]_extractVars
               PROVE  (EvidenceInStep /\ ClosedMode /\ RelationsJoin /\ AsidesSupported)'
    OBVIOUS
  <2>1. CASE UNCHANGED extractVars
    BY <2>1 DEF extractVars, EInv, EvidenceInStep, EvidenceAllOrNone, ClosedMode, RelationsJoin,
                AsidesSupported, Labels, Vocabulary, Listed, Present
  <2>2. CASE Start
    BY <2>2, PlanBegins
  <2>3. CASE Escape \/ Commit
    BY <2>3, PlanEnds DEF Escape, Commit
  <2>4. CASE ReadOpen \/ ReadClosed
    BY <2>4, ReadingKeepsMode
  <2>5. CASE ReadAside \/ Unusable \/ FilterProvenance
    BY <2>5, AnsweringKeepsMode
  <2>6. CASE Link
    BY <2>6, LinkKeepsMode
  <2>7. CASE Linked
    BY <2>7, LinkedKeepsMode
  <2>8. CASE ReadEvidence
    BY <2>8, TellingKeepsStep
  <2>9. CASE Attribute
    BY <2>9, ApplyingKeepsStep
  <2>10. CASE Parsed \/ Attributed \/ LoseEvidence \/ RelationsDone \/ LoseRelations
    BY <2>10, PassesKeepStep
  <2>11. CASE ReadRelation
    BY <2>11, RelatingKeepsStep
  <2> QED
    BY <2>1, <2>2, <2>3, <2>4, <2>5, <2>6, <2>7, <2>8, <2>9, <2>10, <2>11 DEF ExtractNext
<1>3. EInv <=> IInv /\ EvidenceInStep /\ ClosedMode /\ RelationsJoin /\ AsidesSupported
  BY DEF EInv
<1> QED
  BY <1>1, <1>2, <1>3, RowsStayFair, PTL DEF ExtractSpec

(* A plan applies every assessment the evidence pass was told, in order, or *)
(* none and says so, and losing the edge pass costs no evidence             *)
(* (_extract_evidence, _extract_edges).                                     *)
THEOREM EvidenceWholeOrNot == ExtractSpec => []EvidenceAllOrNone
<1>1. EInv => EvidenceAllOrNone
  BY DEF EInv, EvidenceInStep
<1> QED
  BY <1>1, PlansKeepStep, PTL

(* In closed mode the model adds, renames and relates no concept, in open   *)
(* mode it relates only two different concepts of the graph, and it finds   *)
(* no preference or goal in the tutor's words alone (parse_extraction,      *)
(* parse_edge_extraction, filter_provenance).                               *)
THEOREM NothingIsInvented == ExtractSpec => []NothingInvented
<1>1. EInv => NothingInvented
  <2> SUFFICES ASSUME EInv, run.stage \in {"edges", "commit"}
               PROVE  /\ Vocabulary # {} =>
                           /\ Present(run.work) = Present(graph) /\ run.relations = {}
                           /\ \A n \in Node : run.work[n].label = graph[n].label
                      /\ \A r \in run.relations : r[1] # r[2] /\ {r[1], r[2]} \subseteq Labels
                      /\ \A q \in run.asides : "learner" \in run.batch /\ q # {"tutor"}
    BY DEF NothingInvented
  <2>1. Vocabulary # {} =>
           /\ Present(run.work) = Present(graph) /\ run.relations = {}
           /\ \A n \in Node : run.work[n].label = graph[n].label
    BY DEF EInv, ClosedMode, Present
  <2> QED
    BY <2>1 DEF EInv, RelationsJoin, AsidesSupported
<1> QED
  BY <1>1, PlansKeepStep, PTL
==============================================================================
