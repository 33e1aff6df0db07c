---------------------------- MODULE Consolidation ----------------------------
(***************************************************************************)
(* The control of Keeper.consolidate and Keeper.repair_merges: the         *)
(* per-learner advisory lock, the watermark on engram_events, the LLM      *)
(* calls that may fail, and the one transaction that commits a plan.       *)
(* Concurrent calls come from the host's background loop, the end of a     *)
(* voice session, POST /consolidate and other processes on the same        *)
(* database.  What a plan does to the graph is in module Keeper.           *)
(***************************************************************************)
EXTENDS Naturals

CONSTANTS Event,     \* rows of engram_events
          Learner,
          OwnerOf,   \* the learner_id of an event
          Key,       \* the 32-bit values of hashtext(learner_id)
          KeyOf,     \* hashtext: two learners may share a key
          Call,      \* concurrent calls of consolidate / repair_merges
          NoCall

ASSUME ConsolidationAssumption ==
    /\ OwnerOf \in [Event -> Learner]
    /\ KeyOf \in [Learner -> Key]
    /\ NoCall \notin Call

VARIABLES
    stored,    \* events inserted so far
    stamped,   \* those with consolidated_at set
    applied,   \* history: committed plans each event has contributed to
    lock,      \* session that holds pg_advisory_lock(key)
    pc,        \* where each call is
    learner,   \* the learner of each call's latest run
    batch,     \* what the call read with get_pending_events
    report     \* how the call's latest run ended

queueVars == <<stored, stamped, applied>>
callVars  == <<learner, batch, report>>
vars      == <<stored, stamped, applied, lock, pc, learner, batch, report>>

PC == {"idle",        \* not running
       "locked",      \* has the lock, nothing read
       "extracting",  \* first extractor call under way
       "repairing",   \* unparsable answer: the one repair retry
       "planned",     \* plan complete, not committed
       "failing",     \* extraction failed twice, audit row not written
       "sweeping",    \* repair_merges, between merges
       "releasing"}   \* leaving the lock's block

Reading == {"extracting", "repairing", "planned", "failing"}

Report == {"none", "skipped", "empty", "failed", "done", "swept", "error", "lost"}

TypeOK ==
    /\ stored \subseteq Event
    /\ stamped \subseteq stored
    /\ applied \in [Event -> Nat]
    /\ lock \in [Key -> Call \cup {NoCall}]
    /\ pc \in [Call -> PC]
    /\ learner \in [Call -> Learner]
    /\ batch \in [Call -> SUBSET Event]
    /\ report \in [Call -> Report]

\* Slip: the query forgets its learner_id filter.
Pending_AnyLearner(l) == stored \ stamped

(* get_pending_events: the learner's events below the watermark.            *)
Pending(l) == {e \in stored \ stamped : OwnerOf[e] = l}

KeyHeldBy(c) == KeyOf[learner[c]]

Init ==
    /\ stored = {}
    /\ stamped = {}
    /\ applied = [e \in Event |-> 0]
    /\ lock = [k \in Key |-> NoCall]
    /\ pc = [c \in Call |-> "idle"]
    /\ learner \in [Call -> Learner]
    /\ batch = [c \in Call |-> {}]
    /\ report = [c \in Call |-> "none"]

------------------------------------------------------------------------------
(* Engram.ingest: one transaction appends the events of a turn.             *)
Ingest(S) ==
    /\ S # {}
    /\ S \cap stored = {}
    /\ stored' = stored \cup S
    /\ UNCHANGED <<stamped, applied, lock, pc, learner, batch, report>>

\* Slip: run whether or not the lock was acquired.
TryLock_Ignored(c, l, next) ==
    /\ pc[c] = "idle"
    /\ lock' = [lock EXCEPT ![KeyOf[l]] = c]
    /\ pc' = [pc EXCEPT ![c] = next]
    /\ learner' = [learner EXCEPT ![c] = l]
    /\ report' = [report EXCEPT ![c] = "none"]
    /\ UNCHANGED <<queueVars, batch>>

(* pg_try_advisory_lock answers at once; the call goes on to `next`.        *)
TryLock(c, l, next) ==
    /\ pc[c] = "idle"
    /\ lock[KeyOf[l]] = NoCall
    /\ lock' = [lock EXCEPT ![KeyOf[l]] = c]
    /\ pc' = [pc EXCEPT ![c] = next]
    /\ learner' = [learner EXCEPT ![c] = l]
    /\ report' = [report EXCEPT ![c] = "none"]
    /\ UNCHANGED <<queueVars, batch>>

Begin(c, l)       == TryLock(c, l, "locked")
BeginRepair(c, l) == TryLock(c, l, "sweeping")

(* The lock is taken: report skipped=True, touch nothing.                   *)
Skip(c, l) ==
    /\ pc[c] = "idle"
    /\ lock[KeyOf[l]] # NoCall
    /\ learner' = [learner EXCEPT ![c] = l]
    /\ report' = [report EXCEPT ![c] = "skipped"]
    /\ UNCHANGED <<queueVars, lock, pc, batch>>

\* Slip: the early return does not pass through the unlock.
ReadPending_Leak(c) ==
    /\ pc[c] = "locked"
    /\ batch' = [batch EXCEPT ![c] = Pending(learner[c])]
    /\ pc' = [pc EXCEPT ![c] = IF Pending(learner[c]) = {} THEN "idle" ELSE "extracting"]
    /\ UNCHANGED <<queueVars, lock, learner, report>>

(* get_pending_events, and the early return when there are none.            *)
ReadPending(c) ==
    /\ pc[c] = "locked"
    /\ batch' = [batch EXCEPT ![c] = Pending(learner[c])]
    /\ \/ /\ Pending(learner[c]) = {}
          /\ pc' = [pc EXCEPT ![c] = "releasing"]
          /\ report' = [report EXCEPT ![c] = "empty"]
       \/ /\ Pending(learner[c]) # {}
          /\ pc' = [pc EXCEPT ![c] = "extracting"]
          /\ UNCHANGED report
    /\ UNCHANGED <<queueVars, lock, learner>>

(* ExtractionError: once, ask the model again; twice, give the batch up.    *)
BadExtraction(c) ==
    /\ \/ /\ pc[c] = "extracting"
          /\ pc' = [pc EXCEPT ![c] = "repairing"]
       \/ /\ pc[c] = "repairing"
          /\ pc' = [pc EXCEPT ![c] = "failing"]
    /\ UNCHANGED <<queueVars, callVars, lock>>

(* The rest of _plan writes nothing.                                        *)
PlanReady(c) ==
    /\ pc[c] \in {"extracting", "repairing"}
    /\ pc' = [pc EXCEPT ![c] = "planned"]
    /\ UNCHANGED <<queueVars, callVars, lock>>

\* Slip: stamp whatever is pending when the plan is committed.
Commit_StampAllPending(c) ==
    /\ pc[c] = "planned"
    /\ stamped' = stamped \cup Pending(learner[c])
    /\ applied' = [e \in Event |-> IF e \in batch[c] THEN applied[e] + 1 ELSE applied[e]]
    /\ pc' = [pc EXCEPT ![c] = "releasing"]
    /\ report' = [report EXCEPT ![c] = "done"]
    /\ UNCHANGED <<stored, lock, learner, batch>>

\* Slip: the stamping UPDATE has no WHERE clause.
Commit_StampTable(c) ==
    /\ pc[c] = "planned"
    /\ stamped' = Event
    /\ applied' = [e \in Event |-> IF e \in batch[c] THEN applied[e] + 1 ELSE applied[e]]
    /\ pc' = [pc EXCEPT ![c] = "releasing"]
    /\ report' = [report EXCEPT ![c] = "done"]
    /\ UNCHANGED <<stored, lock, learner, batch>>

(* apply_consolidation(plan): evidence, scores and the watermark of exactly *)
(* the events that were read, in one transaction.  The caller sees an error *)
(* when the answer to COMMIT is lost with the connection.                   *)
Commit(c) ==
    /\ pc[c] = "planned"
    /\ stamped' = stamped \cup batch[c]
    /\ applied' = [e \in Event |-> IF e \in batch[c] THEN applied[e] + 1 ELSE applied[e]]
    /\ pc' = [pc EXCEPT ![c] = "releasing"]
    /\ \E r \in {"done", "error"} : report' = [report EXCEPT ![c] = r]
    /\ UNCHANGED <<stored, lock, learner, batch>>

\* Slip: stamp the unreadable batch so that it is not tried again.
AuditFailure_Stamps(c) ==
    /\ pc[c] = "failing"
    /\ stamped' = stamped \cup batch[c]
    /\ pc' = [pc EXCEPT ![c] = "releasing"]
    /\ report' = [report EXCEPT ![c] = "failed"]
    /\ UNCHANGED <<stored, applied, lock, learner, batch>>

(* apply_consolidation of a plan that holds only the extract_failed row.    *)
AuditFailure(c) ==
    /\ pc[c] = "failing"
    /\ pc' = [pc EXCEPT ![c] = "releasing"]
    /\ report' = [report EXCEPT ![c] = "failed"]
    /\ UNCHANGED <<queueVars, lock, learner, batch>>

(* Any other exception, a cancellation or a rolled-back transaction leaves  *)
(* through the lock's finally block.                                        *)
Abort(c) ==
    /\ pc[c] \notin {"idle", "releasing"}
    /\ pc' = [pc EXCEPT ![c] = "releasing"]
    /\ report' = [report EXCEPT ![c] = "error"]
    /\ UNCHANGED <<queueVars, lock, learner, batch>>

(* repair_merges has no duplicate pair left.                                *)
SweepDone(c) ==
    /\ pc[c] = "sweeping"
    /\ pc' = [pc EXCEPT ![c] = "releasing"]
    /\ report' = [report EXCEPT ![c] = "swept"]
    /\ UNCHANGED <<queueVars, lock, learner, batch>>

FreeLock(c) == lock' = [k \in Key |-> IF lock[k] = c THEN NoCall ELSE lock[k]]

(* The finally block: pg_advisory_unlock, then the call returns.            *)
Release(c) ==
    /\ pc[c] = "releasing"
    /\ FreeLock(c)
    /\ pc' = [pc EXCEPT ![c] = "idle"]
    /\ batch' = [batch EXCEPT ![c] = {}]
    /\ UNCHANGED <<queueVars, learner, report>>

(* The process dies: PostgreSQL ends its sessions, which rolls an open      *)
(* transaction back and frees the lock.                                     *)
Crash(c) ==
    /\ pc[c] # "idle"
    /\ FreeLock(c)
    /\ pc' = [pc EXCEPT ![c] = "idle"]
    /\ batch' = [batch EXCEPT ![c] = {}]
    /\ report' = [report EXCEPT ![c] = "lost"]
    /\ UNCHANGED <<queueVars, learner>>

(* Only the session that holds the lock is cut.  The call goes on: its      *)
(* reads and its commit use other connections of the pool.                  *)
DropLockSession(c) ==
    /\ pc[c] # "idle"
    /\ \E k \in Key : lock[k] = c
    /\ FreeLock(c)
    /\ UNCHANGED <<queueVars, callVars, pc>>

------------------------------------------------------------------------------
Proceed(c) ==
    \/ ReadPending(c)
    \/ BadExtraction(c)
    \/ PlanReady(c)
    \/ Commit(c)
    \/ AuditFailure(c)
    \/ SweepDone(c)
    \/ Release(c)

Next ==
    \/ \E S \in SUBSET Event : Ingest(S)
    \/ \E c \in Call, l \in Learner : Begin(c, l) \/ BeginRepair(c, l) \/ Skip(c, l)
    \/ \E c \in Call : Proceed(c) \/ Abort(c) \/ Crash(c)

Spec == Init /\ [][Next]_vars

(* A started call takes its steps: every await in it is of a database or    *)
(* LLM request that answers or raises.  Nobody has to start a call.         *)
FairSpec == Spec /\ \A c \in Call : WF_vars(Proceed(c))

(* The same calls on connections that may be cut one at a time.             *)
DropSpec == Init /\ [][Next \/ \E c \in Call : DropLockSession(c)]_vars

------------------------------------------------------------------------------
(* keeper.py: at most one call is between the lock and its release for one  *)
(* key, so no two plans for a learner are ever made from the same pending   *)
(* events, and no merge sweep runs under a plan.                            *)
OneRunPerKey ==
    \A c, d \in Call :
        c # d /\ pc[c] # "idle" /\ pc[d] # "idle" => KeyHeldBy(c) # KeyHeldBy(d)

(* "Idempotent by construction": whatever is retried, skipped, cancelled or *)
(* killed, an event contributes to at most one committed plan.              *)
AppliedAtMostOnce == \A e \in Event : applied[e] <= 1

(* The watermark and the effects of an event move together: a stamped event *)
(* was used exactly once, and an event not stamped (one that arrived while  *)
(* a plan was made, or whose plan was never committed) was not used at all. *)
ExactlyOnce == \A e \in Event : applied[e] = IF e \in stamped THEN 1 ELSE 0

(* A report with processed events is true: everything the call read has     *)
(* been consolidated, and belongs to the learner it was called for.         *)
DoneMeansConsolidated ==
    \A c \in Call : pc[c] = "releasing" /\ report[c] = "done" =>
        batch[c] # {} /\ batch[c] \subseteq {e \in stamped : OwnerOf[e] = learner[c]}

(* A lock is never kept for ever, whichever way the call that took it ends. *)
LockIsFreed ==
    \A k \in Key, c \in Call : lock[k] = c ~> lock[k] # c

(* Consolidation under locks, retries and crashes implements the ledger.    *)
Ledger == INSTANCE EventLedger WITH
              waiting <- stored \ stamped, absorbed <- stamped, effects <- applied

LedgerSpec == Ledger!Spec
==============================================================================
