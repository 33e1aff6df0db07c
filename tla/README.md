# Verification of engram

This directory holds TLA+ models of `engram`, a long-term memory for tutoring
applications, of the parts of its host SDK that have concurrency of their own,
of the chat and voice tutors built on it, and of its evaluation harness. TLC
checks them on small instances; TLAPS proves every safety and action property that a
passing run checks, and both refinements, for every instance. `PROJECT.json` lists the
runs, the source lines behind every definition, the mutants that show that each
property can fail, and the hazards the properties are for.

    tlc -workers 2 -config MCConsolidation.cfg MCConsolidation
    tlapm KeeperProofs.tla

Contents: 1 the system, 2 the modules and how they correspond to the code,
3 the runs, 4 bounds and abstractions, 5 fairness, 6 proofs, 7 where code and
documentation disagree, 8 what is not modelled, 9 plan.


## 1. The system

A learner's turns, quiz answers and notes are appended to `engram_events`. A
*consolidation* later reads the pending events of one learner, asks an LLM to
extract concepts and misconceptions, links these to the learner's graph
(`engram_nodes`, `engram_edges`, `engram_evidence`), and commits the result and
the watermark on the events in one PostgreSQL transaction. A curriculum
(*ontology*) may be seeded into the same graph. *Recall* renders a part of the
graph into the tutor's prompt. The `EngramHost` embeds all this in an asyncio
application; the voice tutor and the HTTP application are two such hosts.

| component | state | operations | interacts with | hard behaviour |
|---|---|---|---|---|
| Consolidation protocol (`core/keeper.py`, `postgres/_consolidation.py`) | advisory lock per `hashtext(learner_id)`, watermark `consolidated_at` | `consolidate`, `repair_merges` | called by the host loop, by voice sessions, by HTTP and by other processes; through the repository to PostgreSQL and to the LLM | concurrent calls, LLM and commit failures, process death, colliding keys |
| Keeper planning and the learner graph (`core/keeper.py`, `core/edges.py`) | nodes, edges, evidence | link, reconcile edges, decay, merge | reads a snapshot without a transaction, commits seconds later | stale snapshot, seeds that take no lock, merges that repoint edges |
| Embedded host (`runtime/host.py`) | `enabled`, `memory`, `_tasks`, `_consolidating`, `_seeding` | `start`, `aclose`, `seed_soon`, `consolidate_soon`, `log_*` | wraps an `Engram` with a pool; its tasks share one event loop | coalescing, cancellation at any await, requests during a run |
| Voice session, server (`voice/routes.py`, `voice/pipeline.py`) | audio buffer, rows of `engram_voice_turns` | one turn at a time; persist; end the session | WebSocket; `Engram.ingest` and `consolidate` | disconnect or failure within a turn |
| Voice client (`web/src/voice`) | microphone, recorders, playback queue, barge-in gate | press, release, Escape, leave | WebSocket | asynchronous prompts, chunks and `play()`; frames of an interrupted turn |
| Recall (`core/recall.py`, `core/graph.py`) | none; a request's local walk | `recall`, `graph` | reads the repository, query by query | writers between two queries, fan-out, budgets at their boundary |
| Ontology validation (`core/ontology.py`) | none; the search's stack and colours | `validate`, `seed_ontology` | writes the graph without a lock | cycles, also across curricula |
| Mastery (`core/mastery.py`) | mastery and confidence of a node | `observation_for`, `ewma`, `update_confidence` | part of a plan | numbers out of JSON |
| Audit feed and SSE (`app/main.py`) | cursor of a connection | poll, page | reads `engram_audit` | one timestamp for a whole transaction |
| Insights (`insights/`) | none | `blockers` and aggregations | reads nodes, then edges | cyclic graphs |
| Chat tutor (`tutor/`) | none | one turn | `recall`, LLM stream, `ingest` | disconnect or failure at a frame |
| Engram facade (`core/engram.py`) | none | delegates | all of the above | none of its own |
| LLM extraction (`core/extraction.py`, adapters) | none | three passes, retry once | Keeper | arbitrary answers, passes that fail one by one |
| Evaluation harness (`eval/`) | `run.json`, event log, cost of a run | `execute_run`, `execute_many`, gate; launch, cancel, stream | everything above, through a metered LLM | cancellation during clean-up, swallowed budget, lost runs |
| Storage base (`postgres/_base.py`) | connection pool | acquire, transaction | everything | pool exhaustion |
| Factory, FastAPI integration, the rest of the HTTP application, web console, scripts | little or none | see section 8 | | |

What makes them correct:

* **Consolidation**: runs for one key exclude each other; each event has its
  effect exactly once if and only if it is stamped, whatever fails; a report
  that says it processed events is true; the lock is freed on every path.
* **Graph**: one edge per pair of existing, different nodes, always; evidence is
  conserved; a merged node keeps nothing; linking creates no duplicates and a
  repair leaves none but what only the reflector could decide; relations do not
  weaken; the curriculum is never pruned.
* **Host**: requests coalesce but none is forgotten; flags and tasks agree; no
  call is under way without an open pool; a write outlives its caller; closing
  ends.
* **Voice**: an interrupted reply stays silent while the next one is heard;
  every release is answered; transcript and memory agree; the session ends.
* **Validator**: it refuses exactly the malformed and the cyclic, per edge type.
* **Blockers**: exactly the weak concepts behind the goals, on any graph that
  seeds and consolidations can leave, cycles included.
* **Recall**: no mixture of moments invents a node or a link; without writers the
  answer is the neighbourhood; the text keeps to its budget.
* **Feed**: rows in order, none twice, none passed over but where a full page ends
  inside a transaction.
* **Extraction and mastery**: whatever the model answers, no concept, relation or
  preference without a basis; a pass counts whole or not at all; a mastery is
  between the observations it was made of.
* **Evaluation**: the report is what happened; the cap stops the run; lost runs
  count against the gate; who watches sees the end.


## 2. The modules

| module | models | extends |
|---|---|---|
| `EventLedger` | abstract: events are appended, wait, and are absorbed once | |
| `Consolidation` | lock, watermark, failures, commit | |
| `LearnerGraph` | what each storage transaction computes on nodes and edges | |
| `Keeper` | plan, commit, repair and seed on one graph | `Consolidation`, `LearnerGraph` |
| `Recursion` | lemmas: induction over sets of numbers, and functions computed step by step | `TLAPS` |
| `KeeperProofs` | theorems about `Consolidation`, that `Keeper` implements it, and about the graph | `Keeper`, `Recursion` |
| `Coalescer` | abstract: what `consolidate_soon` promises | |
| `EngramHost` | the host on its event loop | |
| `HostProofs` | theorems about it, and that it implements `Coalescer` | `EngramHost`, `TLAPS` |
| `VoiceWire` | the WebSocket | |
| `VoiceServer`, `VoiceClient` | its two ends | `VoiceWire` |
| `Voice` | their composition and its properties | both |
| `VoiceProofs` | theorems about the composition | `Voice`, `TLAPS` |
| `Ontology` | the validator and its depth-first search | |
| `Curriculum` | curricula and consolidations in one graph, and the `blockers` walk | `Ontology` |
| `CurriculumProofs` | theorems about the search, the composition and the walk | `Curriculum`, `TLAPS` |
| `LearnerStore` | the tables as their readers see them, and their writers | |
| `Recall` | `recall` and `graph` requests | `LearnerStore` |
| `AuditFeed` | the audit stream | `LearnerStore` |
| `Readers` | chat turns and requests next to the writers | `Recall`, `AuditFeed` |
| `ReadersProofs` | theorems about requests, their text and the feed | `Readers`, `Recursion` |
| `Extraction` | the LLM passes of a plan, and mastery | |
| `ExtractionProofs` | theorems about mastery and about what an answer may do | `Extraction`, `TLAPS` |
| `EvalRun` | one evaluation run | |
| `Evaluation` | who launches, cancels, watches and repeats runs | `EvalRun` |
| `EvalProofs` | theorems about runs and the gate | `Evaluation`, `TLAPS` |
| `MC*` | constants of the runs | |

Operators named `X_Something` that follow the comment "Slip:" are mistakes of
the kind a programmer could make in `X`. No specification uses them. They are
the mutants that show that a property can fail.

### Consolidation

`pc` is where a call is in `Keeper.consolidate` or `repair_merges`.
`TryLock`/`Skip` are `learner_lock` with `pg_try_advisory_lock`, which answers at
once. `ReadPending` is `get_pending_events` with the early return.
`BadExtraction` is an `ExtractionError`: the first leads to the one repair
retry, the second to `AuditFailure`, a transaction that only writes an audit
row. `PlanReady` stands for the rest of `_plan`, which writes nothing.
`Commit` is `apply_consolidation`: one transaction, so one action. It stamps the
events of the *batch*, not those pending by then; the answer to COMMIT may be
lost, so that the report is an error although the batch is in. `Abort` is any
other exception or a cancellation and leaves through the `finally`, as every
other path does (`Release`). `Crash` ends the process: PostgreSQL frees the
session's lock and rolls back. `Key` is separate from `Learner` because the lock
is taken on a 32-bit hash, so that two learners may share one.
`DropLockSession`, in `DropSpec` only, cuts just the connection that owns the
lock; see section 7.

`applied` is a history variable: how many committed plans an event contributed
to. `EventLedger` is implemented with `waiting = stored \ stamped`,
`absorbed = stamped`, `effects = applied`; the only steps that are not
stuttering are `Ingest` and `Commit`.

### LearnerGraph and Keeper

A row has a status (`forgotten` is decay's, `merged` is a repair's; both are
the soft delete in the database), a label, the text its vector was computed
from, and a coarse salience. A label stands for its normalized text. `Twin` and
`Near` are the bands of cosine similarity in which `_resolve` and
`_find_dup_pair` attach, ask the reflector, or keep apart; `Detail` is the score
by which `canonical_label` prefers one label to another.

`Keeper` refines the step structure of `Consolidation`: every action of
`Consolidation` occurs in `KNext` with its effect on the graph, and planning is
split where the code awaits: `Snapshot` (`get_live_nodes`), `Extracted`, one
`Link` per candidate, `ReadEdges` (`get_edges` and the evidence passes),
`Relate` (the edge pass, `_reconcile_edges` and `_decay_and_snapshot`, with no
await after the pass), `KCommit`. A plan edits its own copy of the nodes, and
`KCommit` writes *every* node of that copy back, all but its vector, as
`_apply_node_updates` does. `SweepMerge` is one merge of `repair_merges` in one
transaction, `SweepReject` the reflector's no. A pair it keeps apart is remembered
to the end of the repair and passed over before labels or vectors are looked at, as
`_find_dup_pair` does, even if later merges have changed the labels since;
`Unsettled` is what is left to merge or to ask about, and a repair ends
(`KSweepDone`) when that is empty. `SeedStart`, `SeedCommit`,
`SeedFail` are `seed_ontology`, which takes no lock and can commit between any
two steps of a plan. `Reconcile` is
the loop of `_reconcile_edges` in closed form, so that proofs can use it: the edges of
a pair only ever get stronger, hence the strongest proposal wins, among equals the
first, and only against a weaker known edge. `ReconcileLoop` is the loop as written.
That the two are equal is a theorem (`LoopIsReconcile`, section 6);
`MCKeeper` also has TLC evaluate it (`LoopReconciles`) for every known
edge of a pair, or none, and every three proposals, of which some are of that pair. `MergeEdges` says the
same way what the two statements of a merge leave. `TwinNodes` takes nodes of the
same label before nodes close by vector, as `_resolve` does. Decay multiplies a salience by a
factor to the power of the days since; in coarse levels it may take any level not above the old one,
or leave the row alone (`Decays`). Initial graphs include old duplicates with edges between
them and to a common neighbour (`Legacy`), the state `repair_merges` exists for, and
nodes that were relabelled since their vector was computed.

### EngramHost

An action is the code a coroutine runs between two awaits. A `Slot` is a task
the host owns: a seed, a consolidation loop or a shielded ingest. Its
states are `created` (scheduled, has not run), `waiting` (a loop on a seed),
`calling` (in `Engram`), ended. `Cancel` marks a task; what a cancelled task
does next depends on where it is (`NeverRuns`: a task cancelled before it has
run never runs any of its code). `consolidating[l]` is the loop's flag with its
rerun mark; `request` is history: a request not followed by a run yet. `write`
is history: what became of the event of a turn. `Injected` tells whether the
host owns the engine it closes. `start` and `aclose` are not re-entered, as under
the ASGI lifespan that calls them.

`Coalescer` is implemented with `owed` counting the first run and the rerun
that are still to begin, and `running` the learners whose loop is in a call.

### Voice

The wire is two FIFO channels and one flag `alive`. It carries only the frames
some guard reads: `start`, audio, `end` and goodbye upward, `busy`, `idle`,
`done` and audio files downward. The server ignores `cancel`, and transcript,
token, usage and error frames change only what is displayed.

`VoiceServer.pc` is where the handler of `/voice` is. `ServerReceive` happens only
when it is `listening`: it reads nothing while it serves a turn, so frames pile
up in `up`. `EndFrame`, `Transcribed`, `Speak`, `ReplyEnds` are
`VoicePipeline.run_turn`; `StoreUser`, `StoreReply`, `Remember` are the three
writes after it, each of which can fail (`ServerFails`); `EndSession` and
`Consolidated` are the `finally` block. A send on a dead connection may vanish or
raise (`SendThen`).

In `VoiceClient` an action is one task of the browser's event loop. `asking` is
the set of unanswered `getUserMedia` prompts, `reading` the chunks in
`Blob.arrayBuffer()`, `stopping` the recorders whose last events are due.
`inTurn` and `discard` are `turnInProgress` and `discardIncomingAudio`, the
barge-in gate. `reply` is history: what the student did to each turn. A turn is
`asked` on release and `begun` when the client has seen its `busy`; an interrupt
makes the first `cut` and the second `silenced`. A press number names the turn it
asks for, its stream and its recorder.

### Ontology and Curriculum

`Submit` is the two loops of `validate`, which refuse a malformed curriculum
before any search (`Malformed`). After it the search of `_assert_acyclic` goes
edge type by edge type (`NextType`), root by root (`Root`); `Look` and `Finish` are
the two branches of its `while` loop, with the frames of its stack as
`[node, left]`. Roots and successors come in any order, so the code's order is one
of those explored. `Refuse` is the `raise` within the walk.

In `Curriculum` an accepted curriculum is written by `Apply` (`apply_ontology`,
one transaction): new concepts come in without mastery, known ones keep theirs,
and only the edges inside the curriculum are replaced. `Assess`, `Relate` and
`Forget` are what a consolidation does to the same tables, any other detail being
`Keeper`'s. `AskLive` and `AskEdges` are the two reads of `Insights.blockers`,
between which everything else may happen; `NextTarget`, `Visit` and `WalkOver` are
its loops, `Visit` one turn of the inner one with its paths. `out`, a dictionary keyed
by node in the code, is the set of the paths reported (`Reported`). Validation and
walk are synchronous Python: nothing else happens within either (`Quiet`).

### LearnerStore, Recall, AuditFeed and Readers

`LearnerStore` has the writers in the order of their statements: `Acquire` takes
the learner's lock and reads the pending events, `BeginTx` begins a transaction
and fixes its timestamp, `Consolidate`, `Merge` and `AuditFailure` commit it with
its audit rows, `Leave` is any way out. `Consolidate` makes one change to the graph:
which changes a plan makes together is `Keeper`'s matter, and a reader tells two
changes of one commit from two commits by nothing but their number.

`Recall.read` is a request with the query it is at: `Seed` (`vector_search`, or the
start of `build_graph`), `HopEdges` and `HopNodes` alternately, `ReadPending` at
any time next to them (the second half of the `gather`), then `AnswerRecall` or
`AnswerGraph`. `Nearest` is what `vector_search` may return: the nearest by `Distance`, where
two are equally far either of them. `Fetched` is the loop of `_expand` over the edges of a hop in
any order, one turn of it being `Take`, with its count per node. `Filled` is the loop of `_fill`, block after block in
the order of the scores (`Scored`): tokens, lines and characters so far; `Chosen` is where it
stops and `Shown` what it then answers with. `NotesShown` is
`_session_buffer_block`. A text is its length, `Tokens` is the heuristic counter.
The request's budget is chosen when it is first looked at. `lived`, `linked` and
`quiet` are history: what was there since the request began, and whether
nothing was written since.

`AuditFeed.Poll` is one turn of the stream's loop. Rows of one transaction share a
timestamp, so a position in the table is a timestamp: `Newer` lists the rows behind the
cursor, transaction after transaction, and `Page` the first of them. `cuts` is history.
`Readers` adds the chat turn (`TurnBegins` to `Finished`, with `TurnFails`) and
chooses at the start whether requests or the feed are connected, because neither
can influence the other.

### Extraction

A plan is `run`, with its `stage`. Each `Read...` action takes one more item of
the model's answer, chosen among all the items that get past the parser, each in
the form the parser makes of it; `Unusable` is an answer the parser refuses
(`ExtractionError`), `Escape` any other exception, `LoseEvidence` and `LoseRelations`
what the two later passes make of both. `ReadOpen` and `ReadClosed` are the modes
of `parse_extraction`: without live curriculum concepts a label may be anything,
with them it must be one of theirs. `ReadAside` and `FilterProvenance` are
preferences and goals; each is the set of speakers it quotes, and which of two alike
came first makes no difference. `Learn` is `_apply_one_evidence` with `Observation`, `Ewma` and
`Confidence`, in thousandths. `low`, `high`, `told` and `applied` are history.
How a candidate finds its node is `Keeper`'s `Link`; here `Targets` is any choice it
may make.

### EvalRun and Evaluation

An action of `EvalRun` is the code of `execute_run` between two awaits, with what
it appends to the event log. `cost` counts LLM calls up to one past the budget,
`Metered` is a call whose `BudgetExceeded` goes up to `execute_run`, `Passes` and
`RunCheck` are the ones that swallow it. `cancel` marks the task; `Cancelled` says
what the exception does at each place, the `finally` block included. A failed
extraction makes two metered calls, so it spends two units. `cut` is
history: a run whose code did not come to its end. `Drain` is the integrity
check, which looks for pending events.

`Evaluation` has two drivers that are never used together: the application
(`Launch`, `CancelRun`, `Crash`, and one viewer of the event stream with its cursor)
and the command line, which repeats a scenario (`Enter`, `Return`, `Lose`) and
ends with `Gate`. A repetition is a run reduced to its outcome, with one result per place
in the list of checks. `aggregate` counts by *name*: a name that is in the list twice
(`Times`), which neither the loader nor `--checks` refuses, counts twice for each
run it passed in (`Passing`).


## 3. The runs

| run | module, config | shows |
|---|---|---|
| `consolidation` | `MCConsolidation` | `TypeOK`, `OneRunPerKey`, `ExactlyOnce`, `DoneMeansConsolidated`, `LockIsFreed`, the refinement `LedgerSpec` |
| `keeper` | `MCKeeper` | `GraphTypeOK`, `EdgesWellFormed`, `RetiredIsBare`, `CurriculumStays`, `SweepLeavesOnlyDoubts`, `LinkingMakesNoTwins`, with a consolidation, a repair and seeds that race |
| `keeper_history` | `MCKeeperHistory` | `EvidenceConserved`, `EdgesOnlyStrengthen`, over several batches and merges |
| `host` | `MCEngramHost` | `HostTypeOK`, `CallsHavePool`, `FlagsMatchTasks`, `WriteOutlivesCaller`, `RequestServed`, `CloseReturns`, the refinement `CoalescedSpec` |
| `voice` | `Voice`, `MCVoice.cfg` | `VoiceTypeOK`, `MemoryMatchesTranscript`, `LiveReplyHeard`, `SilencedStaysSilent`, `ReleaseAnswered`, `SessionEnds` |
| `curriculum` | `MCCurriculum` | `AcceptedIsAcyclic`, `RejectedHasCause`, `BlockersExact` |
| `readers` | `MCReaders` | `RecallSound`, `BudgetKept`, `FeedLosesOnlySplitPages` |
| `extractor` | `MCExtraction` | `MasteryHonest`, `EvidenceAllOrNone`, `NothingInvented` |
| `evaluation` | `MCEvaluation` | `ReportHonest`, `CapStopsTheRun`, `GateNeedsMajority`, `StreamEnds` |
| `lock_session_cut` | `MCConsolidation`, `MCConsolidationDrop.cfg` | `AppliedAtMostOnce` is violated |
| `stale_relabel` | `MCKeeper`, `MCKeeperRelabel.cfg` | `CurriculumTextSticks` is violated |
| `close_drops_write` | `MCEngramHost`, `MCEngramHostClose.cfg` | `CloseDrainsWrites` is violated |

The last three check one property each, a sentence of the documentation that the
code does not keep; section 7.

Some properties need a word. `ExactlyOnce` is an equivalence: an event that is not
stamped has had *no* effect, which is what makes the retry of a failed batch
right. `RetiredIsBare` and `EdgesWellFormed` also say that a plan that was made
before a seed committed never brings a merged node or a second edge back.
`SweepLeavesOnlyDoubts` speaks of the moment a repair ends, before its lock is
released. It does not say that no duplicates are left, which is false (section 7),
but that those left are doubtful by their *vectors*: in the reflector's band, neither equal
nor of high cosine. Labels change with every merge and answers are kept for the whole
repair, so what makes this true is that a question is only asked about vectors in the
band and that no merge or seed changes a vector of the Keeper's own nodes. `LinkingMakesNoTwins` is an action property: the commit of a
consolidation leaves no two live dynamic nodes of one type that are twins, by
label or by vector, and were not before. `LiveReplyHeard`
and `SilencedStaysSilent` are the two sides of the barge-in gate: each is easy
to get by giving up the other.
`MemoryMatchesTranscript` speaks of a session that goes on; when a write fails the
session ends and the two may differ by the turn in hand.

`RecallSound` bounds a request that overlaps with writers by what was there at some
time during it, and pins down one that does not: its nodes are the live ones
within the hop limit, unless a hub has more links than the fan-out.
`FeedLosesOnlySplitPages` needs the lock: with two writers of one learner a
transaction that began first may commit last, and its rows would appear behind the
cursor (that is its mutant). `BlockersExact` compares the walk to reachability on
the edges as read, the least set closed under live prerequisites (`Reaches`). `MasteryHonest` is a weighted mean's property through any
sequence of clamped observations. `ReportHonest` exempts runs that were `cut`, which
section 7 describes, and nothing else; that every session was consolidated means in it
that `consolidate()` returned, which it also does when an extraction failed and the
session's events are still pending. `CapStopsTheRun` says that no session is
consolidated after the one that passed the budget, which is less than a hard cap on cost (section 7).
`GateNeedsMajority` counts each run once: a check passes the gate only by more than half of the
runs asked for, or, if the list names it `m` times, more than an `m`-th of that half. For
lists without repetitions that is the strict majority `aggregate.py` promises; with them it is
all that is true.


## 4. Bounds and abstractions

* `consolidation`: 3 events, 3 learners of whom two share a key, 2 calls. Two
  calls suffice for every race on a lock that excludes pairs; the third event
  allows one to arrive while a batch of two is planned. The proofs need no bound.
* `keeper`: 2 calls (a repair and a consolidation, or two consolidations), one
  event, 3 dynamic and 2 curriculum ids, 4 labels of which two are twins, one
  near, one of another kind, salience 0..2, at most 2 candidates and 2
  relations in an answer. A merge needs two nodes and a neighbour for a
  collision; a batch needs two candidates to name one concept twice. Symmetry is
  over the calls only, which nothing distinguishes. Of `report` the view keeps only
  whether a finished repair is about to release its lock, all that a property of
  this run reads; no guard reads any of it. One initial graph has two nodes that were
  relabelled and a third of which the reflector may hold each to be the same or
  not: a merge then gives the third the label of the one it was kept apart from.
* `keeper_history`: one call, because the lock serializes them, and two events,
  so that two batches meet the results of each other and of repairs. Symmetry is
  over the events. Neither symmetric run checks a liveness property.
* `host`: 2 learners, one logged turn, 3 task slots. Slots only bound how many
  tasks are alive at once: three is one more than one learner can have of seed
  and loop. The engine is the host's own, the case in which `aclose` closes it.
* `voice`: two presses (`MaxPress`), one audio file per reply (`MaxFiles`), and one
  150 ms chunk under way at a time besides the final one. A second press is
  what barge-in needs; a third would repeat the second, as the gate has
  no memory beyond its two flags. With no deadlock check, because a session may
  really be over.

* `curriculum`: 4 concepts, one node of the Keeper's, two edge types, 3 commits, and 12
  curricula: nine broken or cyclic ones, for each way to be refused, and three
  valid ones, a diamond and a cycle of mixed types among them, of which two close
  a prerequisite cycle with the third. A cycle that does not go through the
  search's root needs the fourth concept. The proofs need no bound.
* `readers`: 4 nodes, of which one is a hub with more links than the fan-out of 1, two
  hops, 2 calls, 2 transactions of at most 3 audit rows, pages of 2, 2 events.
  The three budgets cut the text at different blocks, at the header and at the
  notes. Symmetry is over the calls; the view leaves out the tables the connected
  client does not read, which no guard that remains depends on.
* `extractor`: 3 concepts, one a curriculum's, 4 spellings of which two normalize
  alike and one to nothing, numbers within, at and beyond 0..1 and NaN, one candidate
  of either sort and two items in a later answer, one plan. Two assessments on one concept
  suffice for a conflict and for a mean; plans follow each other only through the graph
  they leave, and the initial graphs are such graphs.
* `evaluation`: one run, which is all the application lets live at a time, scenarios of
  at most 2 sessions with one turn each, budgets that trip in the first session,
  later, and never; one list of checks names one twice; 4 repetitions, 2 at a time, enough for a tie.

Data is abstracted to what guards and properties compare. Not modelled within
the graph modules: edge weights, importance, node creation times
(either of a duplicate pair may be the older), audit rows. A seed in
flight is one at a time, which the host enforces per learner. PostgreSQL's
row locks appear only as what they cause, a failed transaction (`Abort`,
`SeedFail`). The voice socket is open at the start: a disconnect while it is
connecting is handled by one flag. What a client sends on a connection it does
not yet know to be dead reaches nobody, so a break and its detection
are one step on the client's side while the server learns of it later.
A crash of the server process in the middle of a voice session is the crash
of a consolidation call plus the loss of the turn in hand.


## 5. Fairness

Every liveness property assumes weak fairness, of system steps only.

* `Consolidation`: `WF(Proceed(c))`. Every await in a started call is of a
  database or LLM request, which answers or raises; clients have timeouts. No
  call has to start and no crash or abort has to happen.
* `EngramHost`: `WF(LifeStep)` and `WF(TaskStep(t))`: asyncio runs whatever is
  ready, and the calls a task is in return or raise. Nobody has to
  ask for a run or close the host.
* `Voice`: the handler takes its steps; frames, or the news that the
  connection is gone, reach the client; `arrayBuffer()` resolves; a stopped
  recorder fires its events. Nobody has to press or release a key, answer the
  microphone prompt, or leave; audio need not come to an end.
* `Evaluation`: `WF(Runs)`, since a run's calls return or raise, and `WF(Poll)`, since the
  stream's loop goes on while its client is connected. Nobody has to launch,
  cancel or connect.


## 6. Proofs

`KeeperProofs` begins with the protocol. It proves, for any sets of events, learners, keys and calls
and any assignment of keys, from `ConsolidationAssumption` alone (the functions
have their types and `NoCall` is not a call):

* `InductiveInvariant`: `Spec => []IInv`;
* `TypeCorrect`: `Spec => []TypeOK`;
* `LockExcludes`: `Spec => []OneRunPerKey`;
* `ConsolidatesExactlyOnce`: `Spec => []ExactlyOnce`;
* `ReportsAreTrue`: `Spec => []DoneMeansConsolidated`, which is inductive next to `IInv`;
* `ImplementsLedger`: `Spec => LedgerSpec`, by step simulation.

Neither `OneRunPerKey` nor `ExactlyOnce` is inductive. Exclusion speaks of
program counters, and only the lock table connects two of them: `RunnersHoldLock`
says that the lock of a running call's key is that call's. A function has one value
per key, so two running calls have different keys. `ExactlyOnce` would fail at a
`Commit` of events already stamped; `BatchStillPending` says that from its read to
its commit a call's batch consists of pending events of its own learner. Another
call's `Commit` could break that, only it is running too, so by exclusion it has
another key, hence another learner, and its own batch is of that learner. Even
typing needs this, since `stamped \subseteq stored` holds because a batch is
pending. `IInv` is these two with `TypeOK` and `ExactlyOnce`. The preservation
of each conjunct is a lemma of its own with one step per action.

`CurriculumProofs` begins with the search. It proves, for curricula of any size over any set of concepts and edge
types, from `BlankIsNoId` and `OntologiesTyped`:

* `SearchInvariant`: `OSpec => []IInv`;
* `AcceptsOnlyAcyclic`: `OSpec => []AcceptedIsAcyclic`;
* `RefusesOnlyForCause`: `OSpec => []RejectedHasCause`.

A cycle is a nonempty set of concepts each of which leads to another of the set
(`Cyclic`), which needs no induction to reason about. The invariant says that the
stack is a path of the graph and the grey nodes are exactly its nodes
(`GreyIsPath`); whatever a frame has looked at is black but for the next node of
the path; black nodes lead only to black ones, and no set of black nodes is a cycle
(`BlackIsClean`); types already searched have none (`SearchedIsClean`). A grey
successor closes a cycle because the stack from its frame on is one
(`GreyIsCycle`). A node turns black when all its successors are, and no node that was
black before leads to it: a set of black nodes that contains it is no more a cycle than
what is left of the set without it. When no root is white, any
cycle consists of sources, all black (`RootsDone`).

It then proves that `Curriculum` implements `Ontology`
(`CurriculumValidates`: every step of the composition is a step of the validator or
leaves its variables alone) and, with it, `SeededIsAcyclic`. From `NodesFinite` (a
learner's table has finitely many rows, or `SetToSeqs` could not order the
prerequisites of one) it proves of the walk:

* `WalkStaysSound`: `CSpec => []WalkSound`;
* `BlockersAreExact`: `CSpec => []BlockersExact`.

`Walking(t)` is the loop's invariant: what the walk has seen lies behind its goal `t`, is
followed (`Unseen` is empty) or is the end of a path on the frontier, and every such path
is a chain of prerequisites without a repetition, since its nodes are seen and what is
appended is not. With nothing left on the frontier the seen nodes are a closed set with `t`,
so nothing behind `t` is missing (`WalkComplete`). `WalkSound` adds that the report is exact
for the goals walked so far, which is why a node reported for an earlier goal needs no
second path.

Of the graph `KeeperProofs` proves, for any nodes, labels, events, calls, curricula and stored
graphs, from `KeeperAssumption` and `ConsolidationAssumption`:

* `KeeperImplementsConsolidation`: `KSpec => Spec`, so that what is proved of the
  protocol holds next to the graph;
* `KeeperInvariant`: `KSpec => []KInv`;
* `GraphTypeCorrect`, `GraphWellFormed`, `MergesLeaveNothing`, `CurriculumSurvives`,
  `SweepsFinish`: `[]` of `GraphTypeOK`, `EdgesWellFormed`, `RetiredIsBare`,
  `CurriculumStays` and `SweepLeavesOnlyDoubts`;
* `LinkingIsSafe`, `EvidenceIsConserved`, `EdgesAreOnlyStrengthened`: the action
  properties `LinkingMakesNoTwins`, `EvidenceConserved` and `EdgesOnlyStrengthen`;
* `LoopIsReconcile`: `ReconcileLoop(known, relations) = Reconcile(known, relations)` for
  every well-formed set of edges and every sequence of relations.

`KeeperAssumption` says that there is one learner (the graph is a learner's, and
plans of different learners touch different rows), that ids of the curriculum, ids of
the Keeper's own nodes and labels differ, that twins are of one kind, and that
curricula and the graphs an older version left are well formed: that is what `validate`
lets through and what the tables' constraints enforce. A curriculum has no two edges for one
pair and one of its own per id; without this `EdgesWellFormed` would fail at a seed.

None of the graph's invariants is inductive: a commit writes what a plan computed
seconds ago. `KInv` therefore says of every plan under way what it may rely on.
`SnapshotHolds`: the nodes it read are live still, and its vectors are the stored ones,
but for those of curriculum concepts; because no other run can hold the key's lock
(`RunnersHoldLock` of the protocol's invariant) and a seed
touches no node of the Keeper's own, the snapshot is stale only in what a
curriculum edit changes. `EdgesRead`: every stored edge at a node of the
Keeper's own is one the plan knows, although a seed may have replaced others.
`EdgesPlanned`: what the plan adds joins nodes of its own and is stronger than what
it knows of the pair, so it can meet no stored edge it did not count with.
`NoNewTwins`: linking has made no pair of duplicates, neither by label nor by vector; this is
why a candidate gets a node's label only if no other has it (`FreeLabel`).
`EvidencePlanned` and `EvidenceKnown`: evidence is of events in the batch, and
stored evidence of stamped ones; with `BatchStillPending` no event gets a second
row. `OntologyLives` says that a seeded concept is neither forgotten nor merged.
`RejectedInDoubt` carries `SweepLeavesOnlyDoubts`, which alone says nothing before the end: a
repair begins with no pair kept apart, one is added only while its vectors are in the
reflector's band, and they stay there (`DoubtfulSame`), since merges and seeds change no vector of
the Keeper's own nodes. At the end every duplicate pair that remains was kept apart.
The operators have lemmas of their own: `Reconciles` (one edge per pair, at least as strong),
`MergeEdges` (well formed, nothing at the loser, nothing weakened at the winner), what
a seed replaces. `LoopIsReconcile` goes by induction on the relations read so far. One more
relation turns the closed form of those before it into the closed form of all (`OneMore`),
provided that every pair known or proposed has an edge at least as strong (`AllJoined`), which the
loop maintains (`ProposeCovers`): without it the closed form might have dropped a pair that the
loop would then take for a new one.

`HostProofs` proves, for any learners, turns and number of task slots, from `HostAssumption`:

* `HostInvariant`: `HostSpec => []HInv`;
* `HostTypeCorrect`, `CallsFindTheirPool`, `FlagsAreTrue`: `[]` of `HostTypeOK`,
  `CallsHavePool` and `FlagsMatchTasks`;
* `CancellationCostsNoEvent`: `WriteOutlivesCaller`;
* `HostCoalesces`: `CoalescedSpec`, the refinement of `Coalescer` for every learner.

`FlagsMatchTasks` speaks of the time outside `start` and `aclose` only. `HInv` carries it through
`aclose`: while that drains, every unfinished task is cancelled, a loop that ends
leaves its flag, and the flag is cleared with the dictionaries afterwards
(`FlagsOwned`); a loop never runs without its flag and never next to another
one of its learner (`OneLoop`), and a seed in flight is the one its entry names
(`OneSeed`). `LifeSound` ties `enabled` to the pool.

`VoiceProofs` proves, for any number of presses and of files per reply, from
`WireAssumption`:

* `VoiceInvariant`: `VoiceSpec => []VInv`;
* `VoiceTypeCorrect`, `MemoryFollowsTranscript`, `LiveRepliesAreHeard`,
  `InterruptedRepliesStaySilent`: `[]` of the four invariants of the run.

The gate is two flags on the client's side and says nothing of what is on the wire. `VInv` follows
a turn across it: each turn has one `end`, at the recorder, on its way or read, and later one
`busy` (`DueOnce`, `EndsOnce`, `BusyOnce`); on the way down the frames of a turn follow its
`busy`, and a turn begins after the last one ended (`FramesInOrder`); the server goes on
where its frames end (`ServerAhead`) and the client is where its last frame put it,
with the gate closed exactly on a turn that was interrupted (`ClientBehind`). The last
frame received is no variable; the invariant asks for some frame that could be it. It was
checked by TLC before it was proved: completely for two presses and one file, and to
depth 30 for three presses and two files.

`ExtractionProofs` proves, for any concepts, any numbers a model may write and answers
of any length, from `ExtractionConstants`:

* `RowsStayFair`: `ExtractSpec => []IInv`;
* `MasteryStaysHonest`: `ExtractSpec => []MasteryHonest`;
* `PlansKeepStep`: `ExtractSpec => []EInv`;
* `EvidenceWholeOrNot`, `NothingIsInvented`: `[]` of `EvidenceAllOrNone` and `NothingInvented`.

`MasteryHonest` is not inductive: it says nothing of the observations that are queued
for a row, nor of the highest assessment of a row without mastery. `IInv` adds that
queued observations are none or within 0..1 (`Queued`, from `ObservationsInRange`) and
that a row without mastery has neither extreme (`Agree`). The rows the plan works on
and the stored ones are held to the same `FairRows`, since a commit makes the one the
other. The step that matters is `NextAgrees`: the weighted mean, rounded down, lies
between the old mastery and the assessment, and a confidence that falls has seen them
on two sides of one half, so the extremes are too.

`EInv` adds what a plan under way holds: while assessments are attributed, those
applied followed by those queued are what the pass was told (`EvidenceInStep`);
in closed mode the plan's candidates and labels are the graph's
(`ClosedMode`); relations join two labels of the graph (`RelationsJoin`); and from linking on
every preference that remains quotes the learner (`AsidesSupported`). The proof found one
conjunct that the run did not need to tell apart: a plan in its edge pass has not lost it.

`EvalProofs` proves, for any scenarios, budgets, checks, runs and repetitions, from
`EvalRunConstants` (a scenario has a session, and a sequence of checks) and
`RunnerConstants`:

* `RunsStaySound`: `ESpec => []RunsSound`;
* `ReportsAreHonest`, `BudgetStopsTheRun`: `[]` of `ReportHonest` and `CapStopsTheRun`;
* `GateTakesMajority`: `ESpec => []GateNeedsMajority`.

`RunsSound` says how far a run is (`Progress`: a session is one ahead of those
consolidated, the checks begin after the last; the passes, whose calls swallow the
exception, begin within the budget), what it has spent (`Metering`: the budget was passed in a
session, and no session but that one ends afterwards) and what it has written (`Reported`:
verdict, file and last line together, or none of them). A verdict that waits for the `finally`
block has to be `Earned` already, since the block may be cut. `GateInv` says that a
run with results has those of all checks, so that the runs the gate counts are those with
a verdict, and that after the gate none goes on. What the gate counts for a name are pairs of a
run and a place, of which there are at most as many as runs the check passed in times places it
has (`PassesBounded`).

`ReadersProofs` proves, for any finite graph, hops, fan-out, texts, budgets, page size, calls and
transactions, from `StoreConstants`, `RecallConstants` and `PageSizeIsPositive`:

* `ReadersStaySound`: `RSpec => []ReadersInv`;
* `RecallIsSound`, `BudgetIsKept`, `FeedIsComplete`: `[]` of `RecallSound`, `BudgetKept` and
  `FeedLosesOnlySplitPages`.

The assumptions give the constants their types, a learner finitely many nodes, and the first
links two different ends each, which the tables' constraints enforce.

`RecallSound` speaks of the end of a request; `ReadersInv` follows it there. `NothingStale`:
what it has met was there at some time since it began, whatever was committed between its queries.
`OnTheWay`: if nothing was, its walk is as far as it says (`Walked`). What it has found lies
within `hop` links of its seeds; while no node met so far has more links than the fan-out
(`Roomy`) it is *all* that does, and behind the frontier nothing is left to find (`Settled`).
The second half is needed for the first: a hop asks only for the links of the frontier. The
conclusion is drawn where the walk ends, at the hop limit or with nothing left on the frontier, from which on the
balls grow no more. `FetchedIsNear` and `FetchedIsAll` say what the fold of `_expand` fetches:
never anything but neighbours of the frontier, and all of them where the fan-out suffices, in whatever order the edges come.

`BudgetKept` is about two folds and a rounding. `FilledBounds` says that the characters of the first `n` blocks
with their header are at most four for each token counted, which is what rounding up per
block gives; the newlines are at most one per line, and `TextFits` counts what they
may add, before and after the notes take what is left.

`FeedLosesOnlySplitPages` rests on the lock of the writers, as its mutant shows. `LatestOpen`
says that at most one call is past the lock and that the transaction it has open is the latest
one and the only one whose rows are still to come: so nothing can appear behind a cursor,
which always stands on a row that is visible. `FeedInOrder` says that what was sent is in order and at or
before the cursor, no row twice, and that what is missing there was cut off by a full page
(`cuts`). `NewerIsRows` says that the fold of `Newer` lists what is behind the cursor, and `PageIsStart` that a
page is the beginning of it.

These folds are recursive functions over the numbers up to a length, and the induction theorems
of the library take an operator as a parameter, which the provers used cannot
instantiate. Module `Recursion` goes another way, through sets. That strict inclusion is well
founded on finite sets is a theorem of the library about a relation (`FS_StrictSubsetOrderingWellFounded`); from it
follows that every nonempty set of numbers has a least one (`Least`), from that an induction
over sets of numbers (`Induct`), and from that two facts about functions computed step by
step: there is one for every step (`RecursionExists`), and two of them agree (`Agree`). The first is
what lets a recursive definition be unfolded at all, since it is a `CHOOSE`.

Only model-checked: liveness (`LockIsFreed`, `RequestServed`, `CloseReturns`,
`ReleaseAnswered`, `SessionEnds`, `StreamEnds`), because fairness and ENABLED are beyond the provers
used. Every other property of the passing runs is a theorem above.
Each strengthened invariant was checked by TLC on the instance of its component's run
before it was proved, with quantifiers over unbounded sets restated.


## 7. Where code and documentation disagree

* **A cut lock session** (`_consolidation.py:96`). The lock belongs to one pooled
  connection; reads and the commit of the same call use others, and nothing checks
  at commit that the lock is still held or that the events are still pending.
  When only that connection is cut during the LLM calls, a second call plans from
  the same events and both commit. `docs/ARCHITECTURE.md:251` calls consolidation
  idempotent by construction.
* **A seed undone** (`keeper.py:434`). A plan writes the label of every node of its
  snapshot back. A curriculum edit committed meanwhile loses its label, and keeps
  its summary and embedding, until the next seed.
* **`aclose()` drops accepted writes** (`host.py:146`). It cancels all owned tasks,
  shielded ingests among them. `consumer-sdk.md:127` says it drains them.

Eight more disagreements were met in the models and have no run of their own:

* A check named twice is counted twice (`aggregate.py:47`): passes are added up by name, one
  per result, and compared with a number of runs, so that `--repeat 3 --checks a,a` passes the
  gate with one run of three. The docstring (`aggregate.py:7`) and `docs/eval-harness.md:202` ask
  for a strict majority of the runs. `GateNeedsMajority` without its factor for the
  multiplicity is that sentence; TLC refutes it for 3 repetitions of the scenario with a doubled name.
* A pair kept apart and then relabelled survives a repair (`keeper.py:489`), because pairs the
  reflector rejected are passed over before labels are compared. When a later merge gives the
  node it keeps the label of one it was rejected against, the repair ends with two live nodes of
  one type and one label, which `_resolve` would hold to be the same without asking, while
  `repair_merges` (`keeper.py:448`) claims "the same combined merge score as `_resolve`".
  `SweepLeavesOnlyDoubts` with "there are none" for its conclusion is refuted by TLC on the
  graph with relabelled nodes. The next repair merges such a pair.
* A rerun does not wait for a seed (`host.py:240`): the loop awaits an in-flight
  seed once, before its first run, while `consumer-sdk.md:200` has every
  consolidation do so.
* `end` may overtake the last chunk (`voice.ts:269`): the final `dataavailable` only
  starts an asynchronous read, and `stop` sends `end` in the same task, while
  `voice.ts:13` gives the opposite order as the purpose of the code.
* The microphone may stay open (`voice.ts:243`): a key released, or a page left,
  while the permission prompt is open is not noticed when it is answered; the
  recorder starts with nobody to stop it.
* The clean-up of an evaluation run may be skipped (`runner.py:255`): one cancelled a
  second time, within it, leaves `run.json` at "running", no final event, and perhaps
  the learner's rows, while `runner.py:4` calls the cleanup unconditional.
* The cost cap is not hard (`docs/eval-harness.md:105` calls it one): evidence and edge passes
  and checks swallow `BudgetExceeded`, so a run that passes its budget in one of them goes on
  with the calls of that consolidation or of the checks that remain, and can still end
  as "passed". What holds is `CapStopsTheRun`.
* A rendered block may pass its budget by a token per four lines, because the token counts of its
  parts leave out the newlines that join them, while `recall.py:216` has the session
  buffer "included inside the budget". What holds is `BudgetKept`, which allows just that.

Other consequences that no sentence of the documentation contradicts:

* Voice: a turn cancelled before the client has heard of it is played; `play()` of a
  file that failed to load may free the gate that the next file holds, and a
  third then cuts it off; if `end_voice_session` raises, the consolidation is
  left to the next trigger.
* Curricula: two valid ones may close a prerequisite cycle together. Nothing
  refuses it; `blockers` ends on it and is exact.
* Recall: forgotten neighbours use up fan-out; the edges between
  two of the outermost nodes are not in the answer; an event that is
  consolidated between the two halves of the `gather` may be in neither.
* Feed: when a full page ends inside a transaction the rest of its rows is never
  sent.
* Extraction: `"evidence": null`, an id or a kind that is a list, or a failed call is no
  `ExtractionError`: it leaves `consolidate` without the repair prompt and the
  audit row. The string `"false"` counts as a correct answer, and NaN as full
  mastery. Importance is not clamped. An assessment without a label goes to a
  concept whose label has no letters, if there is one.
* Evaluation: a run cancelled before it begins leaves a directory without `run.json`. The
  stream of a run whose clean-up was cut or whose process died does not end by itself. A
  scenario without checks passes a single run but never the gate.


## 8. What is not modelled, and why

* `delete_learner` next to other calls, `is_consolidating`'s counterpart in the voice
  routes, health checks, list and detail queries: no state, or used by the
  evaluation tooling only.
* Decay arithmetic (an age in days to a factor) beyond "any level not above the old one", edge weights,
  importance, the ranking of recall beyond "a fixed order of scores".
* A preference or goal candidate of the same text as a concept candidate: in the code it takes
  over the label in `label_to_id` (`keeper.py:168`, `196`) and the batch's relations then
  join it instead of the concept. In the model a label carries its kind, so that one label
  never names both.
* `start` and `aclose` that overlap, which nothing in the host prevents and the ASGI lifespan
  never does: `start` may then report enabled with no memory left (`host.py:114`).
* The connection pool's size: planned below.
* Factory, FastAPI integration, the HTTP application's listings and conversions,
  the aggregating insights: linear code that delegates to what is modelled.
* What one evaluation check computes, arms and sweep: sequential computations over
  finished results. Scripts, the seed loader for demonstrations, and the web console
  apart from voice: tooling and presentation.
* LLM, STT and TTS providers: their answers are nondeterministic choices within what
  the parsing code lets through. Prompts, wording and the way JSON is cut out of a
  text are left out.


## 9. Plan

Order of work, the most important behaviour first. Steps 1 to 9 are done.

1. `Consolidation`, with `EventLedger` as its abstract specification, and its proofs.
2. `LearnerGraph` and `Keeper` on top of `Consolidation`.
3. `EngramHost`, with `Coalescer` as its abstract specification.
4. `Voice*`.
5. `Ontology` and `Curriculum`, with the proofs about the search.
6. `LearnerStore`, `Recall`, `AuditFeed`, `Readers`.
7. `Extraction` with the mastery update.
8. `EvalRun`, `Evaluation`.
9. `ExtractionProofs`, `KeeperProofs`, `HostProofs`, `VoiceProofs`, `EvalProofs`, `ReadersProofs`.
10. `Pool`: consolidations that hold the lock's connection while they acquire others
   from the same bounded pool.
11. `Decay`: salience over many short consolidations, over small rationals.
