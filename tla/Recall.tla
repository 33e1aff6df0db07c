-------------------------------- MODULE Recall --------------------------------
(***************************************************************************)
(* Recall.run and build_graph: requests that walk the learner's graph with *)
(* one query per step while the writers go on committing, and what they    *)
(* answer.  The learner's query fixes how near each node is to it, its     *)
(* score and the length of its text; a text is its length in characters.   *)
(***************************************************************************)
EXTENDS LearnerStore

CONSTANTS Distance,  \* node -> number: how far it is from the query
          Score,     \* node -> number
          Weak,      \* nodes with a mastery below _NEEDS_ATTENTION
          BlockLen,  \* node -> length of its block
          HeaderLen, BufferHeaderLen, NoteLen,
          SeedK, Hops, Fanout, BufferN,
          Budgets

ASSUME RecallConstants ==
    /\ Weak \subseteq Node /\ Budgets \subseteq Nat
    /\ Distance \in [Node -> Nat] /\ Score \in [Node -> Nat] /\ BlockLen \in [Node -> Nat]
    /\ {SeedK, Hops, Fanout, BufferN, HeaderLen, BufferHeaderLen, NoteLen} \subseteq Nat

VARIABLES read,     \* the request under way
          lived,    \* history: nodes live at some time since it began
          linked,   \* history: links there at some time since it began
          quiet     \* history: nothing was committed since it began

recallVars == <<read, lived, linked, quiet>>

NoAnswer == [nodes |-> {}, links |-> {}, lines |-> 0, chars |-> 0, notes |-> 0]

Unread == MaxEvents + 1

Request(kind) ==
    [kind |-> kind, step |-> "idle", budget |-> 0, found |-> {}, frontier |-> {},
     fetch |-> {}, hop |-> 0, edges |-> {}, notes |-> Unread, answer |-> NoAnswer]

RecallInit ==
    /\ read = Request("recall")
    /\ lived = {} /\ linked = {} /\ quiet = FALSE

(* History: a write was committed.                                          *)
Witness ==
    /\ IF read.step = "idle" THEN UNCHANGED <<lived, linked, quiet>>
       ELSE /\ lived' = lived \cup {n \in Node : status'[n] = "live"}
            /\ linked' = linked \cup links'
            /\ quiet' = (quiet /\ status' = status /\ links' = links)
    /\ UNCHANGED read

Begin(kind) ==
    /\ read.step = "idle"
    /\ read' = [Request(kind) EXCEPT !.step = "seed"]
    /\ lived' = Live /\ linked' = links /\ quiet' = TRUE
    /\ UNCHANGED storeVars

Goes(step) == read.step = step /\ UNCHANGED <<storeVars, lived, linked, quiet>>

Nearest ==
    {S \in SUBSET Live : /\ Cardinality(S) = SeedK \/ (S = Live /\ Cardinality(S) < SeedK)
                         /\ \A n \in S, m \in Live \ S : Distance[n] <= Distance[m]}

(* vector_search; get_live_nodes for the whole graph; get_nodes for a focus.*)
Seeds ==
    CASE read.kind = "recall" -> Nearest
      [] read.kind = "graph"  -> {Live}
      [] read.kind = "focus"  -> {{n} \cap Live : n \in Node}

Seed ==
    /\ Goes("seed")
    /\ \E S \in Seeds :
         read' = [read EXCEPT !.found = S, !.frontier = S,
                              !.step = IF read.kind = "graph" THEN "finish" ELSE "hop"]

Touching(S) == {l \in links : l \cap S # {}}

(* One edge of _expand's loop: it has one end in the frontier that counts,  *)
(* and brings in the other unless that end has brought in Fanout already.   *)
Take(acc, l) ==
    LET near == {n \in l \cap read.frontier :
                    acc.used[n] < Fanout /\ ~ (l \ {n}) \subseteq read.found \cup acc.fetch}
    IN  IF near = {} THEN acc
        ELSE [used |-> [n \in read.frontier |-> acc.used[n] + (IF n \in near THEN 1 ELSE 0)],
              fetch |-> acc.fetch \cup (l \ read.found)]

(* The edges of one hop, in the order they came.                            *)
Fetched(order) ==
    LET took[k \in 0..Len(order)] ==
            IF k = 0 THEN [used |-> [n \in read.frontier |-> 0], fetch |-> {}]
            ELSE Take(took[k-1], order[k])
    IN  took[Len(order)].fetch

(* get_edges of the frontier.  _neighborhood has no fan-out limit.          *)
HopEdges ==
    /\ Goes("hop") /\ read.hop < Hops /\ read.frontier # {}
    /\ \E order \in SetToSeqs(Touching(read.frontier)) :
         LET fetch == IF read.kind = "recall" THEN Fetched(order)
                      ELSE (UNION Touching(read.frontier)) \ read.found
         IN  read' = [read EXCEPT
                        !.edges = @ \cup Touching(read.frontier), !.fetch = fetch,
                        !.hop = @ + 1, !.step = IF fetch = {} THEN "finish" ELSE "nodes"]

\* Slip: nodes that faded out are fetched with the others.
HopNodes_Forgotten ==
    /\ Goes("nodes")
    /\ LET new == read.fetch \cap {n \in Node : status[n] # "absent"}
       IN  read' = [read EXCEPT !.found = @ \cup new, !.frontier = new, !.fetch = {},
                                !.step = "hop"]

(* get_nodes: those that are still live are the next frontier.              *)
HopNodes ==
    /\ Goes("nodes")
    /\ LET new == read.fetch \cap Live
       IN  read' = [read EXCEPT !.found = @ \cup new, !.frontier = new, !.fetch = {},
                                !.step = "hop"]

HopsOver ==
    /\ Goes("hop") /\ (read.hop = Hops \/ read.frontier = {})
    /\ read' = [read EXCEPT !.step = "finish"]

(* get_pending_events runs next to the walk, at any time before its end.    *)
ReadPending ==
    /\ read.kind = "recall" /\ read.notes = Unread /\ read.step \in {"seed", "hop", "nodes", "finish"}
    /\ read' = [read EXCEPT !.notes =
                  Cardinality({i \in DOMAIN events : events[i].pending /\ events[i].type = "note"})]
    /\ UNCHANGED <<storeVars, lived, linked, quiet>>

------------------------------------------------------------------------------
(* heuristic_token_count                                                    *)
Tokens(len) == IF len = 0 THEN 1 ELSE (len + 3) \div 4

(* So many lines joined by newlines.                                        *)
TextLen(lines, chars) == IF lines = 0 THEN 0 ELSE chars + lines - 1

(* The found nodes, best score first.                                       *)
Scored ==
    {s \in SetToSeqs(read.found) :
        \A i, j \in DOMAIN s : i < j => Score[s[i]] >= Score[s[j]]}

(* The header of the weak nodes comes with the first of them.               *)
Leads(order, k) == order[k] \in Weak /\ \A j \in 1..k-1 : order[j] \notin Weak

\* Slip: the header comes for free.
Cost_NoHeader(order, k) == Tokens(BlockLen[order[k]])

Cost(order, k) ==
    Tokens(BlockLen[order[k]]) + (IF Leads(order, k) THEN Tokens(HeaderLen) ELSE 0)

(* What _fill has after so many nodes: tokens used, and its text.           *)
Filled(order) ==
    LET fill[k \in 0..Len(order)] ==
            IF k = 0 THEN [used |-> 0, lines |-> 0, chars |-> 0]
            ELSE [used  |-> fill[k-1].used + Cost(order, k),
                  lines |-> fill[k-1].lines + (IF Leads(order, k) THEN 2 ELSE 1),
                  chars |-> fill[k-1].chars + BlockLen[order[k]]
                              + (IF Leads(order, k) THEN HeaderLen ELSE 0)]
    IN  fill

(* It stops at the first node that does not fit.                            *)
Chosen(order, budget) ==
    {n \in 0..Len(order) :
        /\ \A k \in 1..n : Filled(order)[k].used <= budget
        /\ n < Len(order) => Filled(order)[n+1].used > budget}

(* The n first nodes; the best one when none fits.                          *)
Shown(order, n) == {order[i] : i \in DOMAIN order \cap 1..(IF n = 0 THEN 1 ELSE n)}

BufferLen(n) == BufferHeaderLen + n * (NoteLen + 1)

(* _session_buffer_block drops the oldest notes until the rest fits.        *)
NotesShown(remaining) ==
    LET most == IF read.notes < BufferN THEN read.notes ELSE BufferN
        Fits(n) == Tokens(BufferLen(n)) <= remaining
    IN  {n \in 0..most : (n = 0 \/ Fits(n)) /\ \A m \in n+1..most : ~ Fits(m)}

(* Recall answers when both halves of the gather are in.  The request's     *)
(* budget is looked at only here.                                           *)
AnswerRecall ==
    /\ Goes("finish") /\ read.kind = "recall" /\ read.notes # Unread
    /\ \E budget \in Budgets, order \in Scored :
         \E n \in Chosen(order, budget) :
           LET text == Filled(order)[n]
           IN  \E notes \in NotesShown(budget - Tokens(TextLen(text.lines, text.chars))) :
                 read' = [read EXCEPT !.step = "done", !.budget = budget, !.answer =
                            [nodes |-> Shown(order, n),
                             links |-> {l \in read.edges : l \subseteq Shown(order, n)},
                             lines |-> text.lines, chars |-> text.chars, notes |-> notes]]

(* build_graph reads the edges again once it has its nodes.                 *)
AnswerGraph ==
    /\ Goes("finish") /\ read.kind # "recall"
    /\ read' = [read EXCEPT !.step = "done", !.answer =
                  [NoAnswer EXCEPT !.nodes = read.found,
                                   !.links = {l \in links : l \subseteq read.found}]]

(* The answer is sent.                                                      *)
Reply ==
    /\ read.step = "done" /\ read' = Request("recall")
    /\ lived' = {} /\ linked' = {} /\ quiet' = FALSE
    /\ UNCHANGED storeVars

ReadStep ==
    Seed \/ HopEdges \/ HopNodes \/ HopsOver \/ ReadPending \/ AnswerRecall \/ AnswerGraph

------------------------------------------------------------------------------
(* The nodes within k links of S, over live nodes.                          *)
Balls(S, edges, live) ==
    LET ball[k \in 0..Hops] ==
            IF k = 0 THEN S
            ELSE ball[k-1] \cup ((UNION {l \in edges : l \cap ball[k-1] # {}}) \cap live)
    IN  ball

Ball(S) == Balls(S, links, Live)[Hops]

Degree(n) == Cardinality({l \in links : n \in l})

(* A request that overlaps with consolidations and merges may mix the       *)
(* graph's before and after, but answers with nothing that was gone before  *)
(* it began, and its links join nodes it answers with.  Left alone, it      *)
(* finds exactly the live neighbourhood: forgotten nodes keep their links   *)
(* and must not be stepped on (get_nodes), and a hub beyond the fan-out is  *)
(* all that may be cut (_expand, build_graph).                              *)
RecallSound ==
    read.step = "done" =>
        /\ read.answer.nodes \subseteq lived /\ read.answer.links \subseteq linked
        /\ UNION read.answer.links \subseteq read.answer.nodes
        /\ quiet /\ read.kind \in {"recall", "focus"} =>
             \E S \in Seeds :
                /\ S \subseteq read.found /\ read.found \subseteq Ball(S)
                /\ (read.kind = "focus" \/ \A n \in read.found : Degree(n) <= Fanout)
                     => read.found = Ball(S)
        /\ quiet /\ read.kind # "recall" =>
             read.answer.links = {l \in links : l \subseteq read.answer.nodes}

(* The text a tutor gets is within its budget but for the newlines, which   *)
(* nobody counts: one token more for every four lines (_fill,               *)
(* _session_buffer_block).                                                  *)
BudgetKept ==
    LET a == read.answer
        lines == a.lines + (IF a.notes = 0 THEN 0 ELSE 1 + a.notes)
        chars == a.chars + (IF a.notes = 0 THEN 0 ELSE BufferHeaderLen + a.notes * NoteLen)
    IN  read.step = "done" /\ lines # 0 =>
            Tokens(TextLen(lines, chars)) <= read.budget + (lines + 2) \div 4
===============================================================================
