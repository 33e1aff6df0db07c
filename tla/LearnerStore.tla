----------------------------- MODULE LearnerStore -----------------------------
(***************************************************************************)
(* What the readers of one learner see of the tables, and who writes them: *)
(* events come in at any time; consolidations and repairs hold the         *)
(* learner's lock while they commit transactions, each with audit rows     *)
(* that carry the time their transaction began.  A pair of linked nodes    *)
(* stands for its edge: no reader looks at its type or direction.          *)
(***************************************************************************)
EXTENDS Naturals, Sequences, FiniteSets, SequencesExt

CONSTANTS Node,
          AtFirst,    \* nodes that are live when the readers come
          LinkedAtFirst,
          Call,       \* consolidate and repair_merges calls
          MaxRows,    \* bound: audit rows of a transaction
          MaxCommits, \* bound: transactions
          MaxEvents   \* bound: events

ASSUME StoreConstants ==
    /\ IsFiniteSet(Node) /\ AtFirst \subseteq Node
    /\ \A l \in LinkedAtFirst : \E m, n \in AtFirst : m # n /\ l = {m, n}
    /\ {MaxRows, MaxCommits, MaxEvents} \subseteq Nat

VARIABLES status,     \* engram_nodes
          links,      \* engram_edges
          events,     \* engram_events in the order of their timestamps
          audit,      \* engram_audit: the number of rows of each timestamp
          now,        \* the clock, and at once the number of transactions begun
          call        \* the calls

storeVars == <<status, links, events, audit, now, call>>

Live == {n \in Node : status[n] = "live"}

(* Chat turns carry no signals; quizzes and notes are shown until they are  *)
(* consolidated.                                                            *)
EventType == {"utterance", "tutor_explanation", "note"}

Out == [step |-> "out", batch |-> {}, ts |-> 0]

StoreInit ==
    /\ status = [n \in Node |-> IF n \in AtFirst THEN "live" ELSE "absent"]
    /\ links = LinkedAtFirst
    /\ events = <<>> /\ audit = <<>> /\ now = 0
    /\ call = [c \in Call |-> Out]

(* insert_events: all events of one request or none.                        *)
Insert(types) ==
    /\ Len(events) + Len(types) <= MaxEvents
    /\ events' = events \o [i \in DOMAIN types |-> [type |-> types[i], pending |-> TRUE]]
    /\ UNCHANGED <<status, links, audit, now, call>>

(* POST /add                                                                *)
Add == Insert(<<"note">>)

\* Slip: nobody looks at the lock.
Acquire_Free(c) ==
    /\ call[c].step = "out"
    /\ call' = [call EXCEPT ![c] = [Out EXCEPT !.step = "locked",
                    !.batch = {i \in DOMAIN events : events[i].pending}]]
    /\ UNCHANGED <<status, links, events, audit, now>>

(* pg_try_advisory_lock, then the pending events.                           *)
Acquire(c) ==
    /\ call[c].step = "out" /\ \A d \in Call : call[d].step = "out"
    /\ call' = [call EXCEPT ![c] = [Out EXCEPT !.step = "locked",
                    !.batch = {i \in DOMAIN events : events[i].pending}]]
    /\ UNCHANGED <<status, links, events, audit, now>>

(* now() in a transaction is the time it began.                             *)
BeginTx(c) ==
    /\ call[c].step = "locked" /\ now < MaxCommits
    /\ now' = now + 1 /\ audit' = Append(audit, 0)
    /\ call' = [call EXCEPT ![c].step = "writing", ![c].ts = now + 1]
    /\ UNCHANGED <<status, links, events>>

(* The rows of the transaction become visible with its commit.              *)
Audit(c, rows) == audit' = [audit EXCEPT ![call[c].ts] = rows]

(* apply_consolidation stamps the batch; of what else it writes, one        *)
(* change: a new node with its link, a new link, or a node forgotten.       *)
Consolidate(c) ==
    /\ call[c].step = "writing" /\ call[c].batch # {}
    /\ \/ \E n \in Node, m \in Live :
            /\ n # m /\ status[n] \in {"absent", "live"}
            /\ status' = [status EXCEPT ![n] = "live"]
            /\ links' = links \cup {{m, n}}
       \/ \E n \in Live : status' = [status EXCEPT ![n] = "forgotten"] /\ links' = links
    /\ events' = [i \in DOMAIN events |->
                    [events[i] EXCEPT !.pending = @ /\ i \notin call[c].batch]]
    /\ \E rows \in 1..MaxRows : Audit(c, rows)
    /\ call' = [call EXCEPT ![c] = Out]
    /\ UNCHANGED now

(* merge_nodes: the links of the merged node move to the other.             *)
Merge(c) ==
    /\ call[c].step = "writing"
    /\ \E keep, drop \in Live :
        /\ keep # drop
        /\ status' = [status EXCEPT ![drop] = "merged"]
        /\ links' = {l \in {IF drop \in k THEN (k \ {drop}) \cup {keep} ELSE k : k \in links} :
                        Cardinality(l) = 2}
    /\ Audit(c, 1)
    /\ call' = [call EXCEPT ![c].step = "locked"]
    /\ UNCHANGED <<events, now>>

(* The consolidation failed: a transaction of its own says so.              *)
AuditFailure(c) ==
    /\ call[c].step = "writing"
    /\ Audit(c, 1)
    /\ call' = [call EXCEPT ![c] = Out]
    /\ UNCHANGED <<status, links, events, now>>

(* The lock is freed; a transaction that is open rolls back.                *)
Leave(c) ==
    /\ call[c].step # "out"
    /\ call' = [call EXCEPT ![c] = Out]
    /\ UNCHANGED <<status, links, events, audit, now>>

Write(c) == Consolidate(c) \/ Merge(c)

Writers == \E c \in Call : Acquire(c) \/ BeginTx(c) \/ Write(c) \/ AuditFailure(c) \/ Leave(c)
===============================================================================
