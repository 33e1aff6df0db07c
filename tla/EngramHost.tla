------------------------------ MODULE EngramHost ------------------------------
(***************************************************************************)
(* runtime/host.py: the object a host application embeds.  It opens and    *)
(* closes the Engram it wraps and owns the background tasks of one asyncio *)
(* loop: curriculum seeds, one consolidation loop per learner, and shielded*)
(* writes of logged turns.  An action is what runs between two awaits.     *)
(* start() and aclose() are called one at a time, as a lifespan does.      *)
(***************************************************************************)
EXTENDS Naturals, FiniteSets

CONSTANTS Learner,
          Turn,       \* calls of log_turn / log_quiz / log_note, each made once
          Slot,       \* bound: tasks that exist at a time
          NoTask,
          Injected    \* whether the host was given its Engram or builds it

ASSUME HostAssumption == NoTask \notin Slot /\ Injected \in BOOLEAN

VARIABLES
    started, failed, \* _started, _failed
    engine,          \* _engram: "none", "idle" (no pool), "open"
    life,            \* the start() or aclose() under way
    task,            \* the asyncio tasks
    tasks,           \* _tasks
    consolidating,   \* _consolidating: no entry, entry, entry with rerun set
    seeding,         \* _seeding
    caller,          \* how each logging call ended
    write,           \* history: what became of its event
    request          \* history: consolidation asked for, no run begun since

hostVars == <<started, failed, engine, life>>
turnVars == <<caller, write>>
vars     == <<hostVars, task, tasks, consolidating, seeding, turnVars, request>>

(* on: the seed a loop waits for.  cancel: t.cancel() was called.           *)
Task == [kind: {"seed", "loop", "ingest"}, who: Learner \cup Turn, cancel: BOOLEAN,
         st: {"created", "waiting", "calling"}, on: Slot \cup {NoTask}]

Done == [st |-> "done"]

enabled == started /\ ~failed

Unopened == IF Injected THEN "idle" ELSE "none"

NewTask(kind, who) ==
    [kind |-> kind, who |-> who, cancel |-> FALSE, st |-> "created", on |-> NoTask]

Busy(t) == task[t] # Done

(* Types; and a task that has work left is registered, so that aclose finds *)
(* it and the event loop cannot collect it.                                 *)
HostTypeOK ==
    /\ started \in BOOLEAN /\ failed \in BOOLEAN
    /\ engine \in {"none", "idle", "open"}
    /\ life \in {"none", "starting", "draining", "closing"}
    /\ task \in [Slot -> Task \cup {Done}]
    /\ {t \in Slot : Busy(t)} \subseteq tasks /\ tasks \subseteq Slot
    /\ consolidating \in [Learner -> {"none", "once", "again"}]
    /\ seeding \in [Learner -> Slot \cup {NoTask}]
    /\ caller \in [Turn -> {"idle", "waiting", "true", "false", "raised", "cancelled"}]
    /\ write \in [Turn -> {"none", "pending", "stored", "failed", "lost"}]
    /\ request \in [Learner -> BOOLEAN]

(* Slots whose task object is garbage: not registered, nobody waits for it. *)
FreeSlots ==
    {t \in Slot \ tasks :
        /\ ~Busy(t)
        /\ \A l \in Learner : seeding[l] # t
        /\ \A u \in Slot : Busy(u) => task[u].on # t}

NewSlot == CHOOSE t \in FreeSlots : TRUE

\* Slip: the new task is not registered.
Spawn_Unregistered(kind, who) ==
    /\ FreeSlots # {}
    /\ task' = [task EXCEPT ![NewSlot] = NewTask(kind, who)]
    /\ UNCHANGED tasks

Spawn(kind, who) ==
    /\ FreeSlots # {}
    /\ task' = [task EXCEPT ![NewSlot] = NewTask(kind, who)]
    /\ tasks' = tasks \cup {NewSlot}

SeedInFlight(l) == seeding[l] # NoTask /\ Busy(seeding[l])

Init ==
    /\ started = FALSE /\ failed = FALSE
    /\ engine = Unopened /\ life = "none"
    /\ task = [t \in Slot |-> Done]
    /\ tasks = {}
    /\ consolidating = [l \in Learner |-> "none"]
    /\ seeding = [l \in Learner |-> NoTask]
    /\ caller = [c \in Turn |-> "idle"]
    /\ write = [c \in Turn |-> "none"]
    /\ request = [l \in Learner |-> FALSE]

------------------------------------------------------------------------------
(* start(): build the Engram unless there is one, then await connect().     *)
StartBegin ==
    /\ life = "none" /\ ~enabled /\ ~failed
    /\ life' = "starting"
    /\ engine' = "idle"
    /\ UNCHANGED <<started, failed, task, tasks, consolidating, seeding, turnVars, request>>

StartOk ==
    /\ life = "starting"
    /\ life' = "none" /\ started' = TRUE /\ engine' = "open"
    /\ UNCHANGED <<failed, task, tasks, consolidating, seeding, turnVars, request>>

(* Failure is latched until aclose(); a half-built Engram is dropped.       *)
StartFail ==
    /\ life = "starting"
    /\ life' = "none" /\ failed' = TRUE /\ started' = FALSE /\ engine' = Unopened
    /\ UNCHANGED <<task, tasks, consolidating, seeding, turnVars, request>>

(* aclose(): refuse new work, cancel every task ...                         *)
CloseBegin ==
    /\ life = "none"
    /\ started' = FALSE /\ failed' = FALSE /\ life' = "draining"
    /\ task' = [t \in Slot |-> IF t \in tasks /\ Busy(t) THEN [task[t] EXCEPT !.cancel = TRUE] ELSE task[t]]
    /\ request' = [l \in Learner |-> FALSE]
    /\ UNCHANGED <<engine, tasks, consolidating, seeding, turnVars>>

\* Slip: the tasks are cancelled but not awaited.
CloseDrained_NoWait ==
    /\ life = "draining"
    /\ tasks' = {}
    /\ consolidating' = [l \in Learner |-> "none"]
    /\ seeding' = [l \in Learner |-> NoTask]
    /\ life' = "closing"
    /\ UNCHANGED <<started, failed, engine, task, turnVars, request>>

\* Slip: the dicts are left as they are.
CloseDrained_NoClear ==
    /\ life = "draining"
    /\ \A t \in tasks : ~Busy(t)
    /\ tasks' = {}
    /\ life' = "closing"
    /\ UNCHANGED <<started, failed, engine, task, consolidating, seeding, turnVars, request>>

\* Slip: the drain waits for the flags, which a task that never ran leaves set.
CloseDrained_WaitsForFlags ==
    /\ life = "draining"
    /\ \A t \in tasks : ~Busy(t)
    /\ \A l \in Learner : consolidating[l] = "none"
    /\ tasks' = {}
    /\ seeding' = [l \in Learner |-> NoTask]
    /\ life' = "closing"
    /\ UNCHANGED <<started, failed, engine, task, consolidating, turnVars, request>>

(* ... await them all, clear the dicts ...                                  *)
CloseDrained ==
    /\ life = "draining"
    /\ \A t \in tasks : ~Busy(t)
    /\ tasks' = {}
    /\ consolidating' = [l \in Learner |-> "none"]
    /\ seeding' = [l \in Learner |-> NoTask]
    /\ life' = "closing"
    /\ UNCHANGED <<started, failed, engine, task, turnVars, request>>

(* ... and close the pool.  A host that builds its Engram forgets it.       *)
CloseDone ==
    /\ life = "closing"
    /\ life' = "none" /\ engine' = Unopened
    /\ UNCHANGED <<started, failed, task, tasks, consolidating, seeding, turnVars, request>>

------------------------------------------------------------------------------
(* seed_soon: a no-op while a seed of the learner is in flight.             *)
SeedSoon(l) ==
    /\ enabled /\ ~SeedInFlight(l)
    /\ Spawn("seed", l)
    /\ seeding' = [seeding EXCEPT ![l] = NewSlot]
    /\ UNCHANGED <<hostVars, consolidating, turnVars, request>>

\* Slip: every request starts a loop.
FirstRequest_Always(l) ==
    /\ enabled
    /\ Spawn("loop", l)
    /\ consolidating' = [consolidating EXCEPT ![l] = "once"]
    /\ request' = [request EXCEPT ![l] = TRUE]
    /\ UNCHANGED <<hostVars, seeding, turnVars>>

(* consolidate_soon: the first request starts the loop, later ones mark a   *)
(* rerun.                                                                   *)
FirstRequest(l) ==
    /\ enabled /\ consolidating[l] = "none"
    /\ Spawn("loop", l)
    /\ consolidating' = [consolidating EXCEPT ![l] = "once"]
    /\ request' = [request EXCEPT ![l] = TRUE]
    /\ UNCHANGED <<hostVars, seeding, turnVars>>

MoreRequests(l) ==
    /\ enabled /\ consolidating[l] # "none"
    /\ consolidating' = [consolidating EXCEPT ![l] = "again"]
    /\ request' = [request EXCEPT ![l] = TRUE]
    /\ UNCHANGED <<hostVars, task, tasks, seeding, turnVars>>

(* _safe_ingest: the write is a task of its own; the caller waits for it    *)
(* behind a shield.                                                         *)
LogBegin(c) ==
    /\ enabled /\ caller[c] = "idle"
    /\ Spawn("ingest", c)
    /\ caller' = [caller EXCEPT ![c] = "waiting"]
    /\ write' = [write EXCEPT ![c] = "pending"]
    /\ UNCHANGED <<hostVars, consolidating, seeding, request>>

\* Slip: no shield, the cancellation reaches the write.
LogCancelled_Unshielded(c) ==
    /\ caller[c] = "waiting"
    /\ caller' = [caller EXCEPT ![c] = "cancelled"]
    /\ task' = [t \in Slot |-> IF Busy(t) /\ task[t].who = c THEN [task[t] EXCEPT !.cancel = TRUE] ELSE task[t]]
    /\ UNCHANGED <<hostVars, tasks, consolidating, seeding, write, request>>

(* The turn around the call is cancelled.                                   *)
LogCancelled(c) ==
    /\ caller[c] = "waiting"
    /\ caller' = [caller EXCEPT ![c] = "cancelled"]
    /\ UNCHANGED <<hostVars, task, tasks, consolidating, seeding, write, request>>

------------------------------------------------------------------------------
Ended(t) == [task EXCEPT ![t] = Done]

(* A write ends: the fate of its event, and what a caller that still waits  *)
(* for it gets.                                                             *)
Answer(t, res, fate) ==
    /\ task' = Ended(t)
    /\ LET c == task[t].who
       IN  /\ write' = [write EXCEPT ![c] = fate]
           /\ caller' = [caller EXCEPT ![c] =
                 IF @ # "waiting" THEN @
                 ELSE CASE res = "ok" -> "true" [] res = "failed" -> "false" [] OTHER -> "raised"]

(* Cancelled before its first step: no line of it runs, its finally neither.*)
NeverRuns(t) ==
    /\ Busy(t) /\ task[t].st = "created" /\ task[t].cancel
    /\ IF task[t].kind = "ingest" THEN Answer(t, "cancelled", "lost")
       ELSE task' = Ended(t) /\ UNCHANGED turnVars
    /\ UNCHANGED <<hostVars, tasks, consolidating, seeding, request>>

(* First step of a seed or a write: the call of the Engram begins.          *)
CallBegins(t) ==
    /\ Busy(t) /\ task[t].kind # "loop" /\ task[t].st = "created" /\ ~task[t].cancel
    /\ task' = [task EXCEPT ![t].st = "calling"]
    /\ UNCHANGED <<hostVars, tasks, consolidating, seeding, turnVars, request>>

SeedEnds(t) ==
    /\ Busy(t) /\ task[t].kind = "seed" /\ task[t].st = "calling"
    /\ task' = Ended(t)
    /\ UNCHANGED <<hostVars, tasks, consolidating, seeding, turnVars, request>>

(* One INSERT transaction; a cancelled one has committed or rolled back.    *)
IngestEnds(t) ==
    /\ Busy(t) /\ task[t].kind = "ingest" /\ task[t].st = "calling"
    /\ \/ ~task[t].cancel /\ (Answer(t, "ok", "stored") \/ Answer(t, "failed", "failed"))
       \/ task[t].cancel /\ \E fate \in {"stored", "lost"} : Answer(t, "cancelled", fate)
    /\ UNCHANGED <<hostVars, tasks, consolidating, seeding, request>>

RunBegins(t) ==
    /\ task' = [task EXCEPT ![t].st = "calling", ![t].on = NoTask]
    /\ request' = [request EXCEPT ![task[t].who] = FALSE]
    /\ UNCHANGED consolidating

(* The finally block of the loop.                                           *)
LoopEnds(t) ==
    /\ task' = Ended(t)
    /\ consolidating' = [consolidating EXCEPT ![task[t].who] = "none"]
    /\ UNCHANGED request

(* _consolidate_loop: wait out a seed that is in flight, then run.          *)
LoopStarts(t) ==
    /\ Busy(t) /\ task[t].kind = "loop" /\ task[t].st = "created" /\ ~task[t].cancel
    /\ LET l == task[t].who
       IN  \/ ~SeedInFlight(l) /\ RunBegins(t)
           \/ /\ SeedInFlight(l)
              /\ task' = [task EXCEPT ![t].st = "waiting", ![t].on = seeding[l]]
              /\ UNCHANGED <<consolidating, request>>
    /\ UNCHANGED <<hostVars, tasks, seeding, turnVars>>

(* The seed is over, successful or not, or the loop was cancelled.  Only    *)
(* aclose cancels a seed, and it cancels the loop that waits for it, too.   *)
SeedAwaited(t) ==
    /\ Busy(t) /\ task[t].st = "waiting"
    /\ \/ task[t].cancel /\ LoopEnds(t)
       \/ ~task[t].cancel /\ ~Busy(task[t].on) /\ RunBegins(t)
    /\ UNCHANGED <<hostVars, tasks, seeding, turnVars>>

\* Slip: a request that came during the run is taken as served by it.
RunEnds_NoRerun(t) ==
    /\ Busy(t) /\ task[t].kind = "loop" /\ task[t].st = "calling"
    /\ LoopEnds(t)
    /\ UNCHANGED <<hostVars, tasks, seeding, turnVars>>

(* The run returned or raised: run again if asked to meanwhile.             *)
RunEnds(t) ==
    /\ Busy(t) /\ task[t].kind = "loop" /\ task[t].st = "calling"
    /\ LET l == task[t].who
       IN  \/ task[t].cancel /\ LoopEnds(t)
           \/ ~task[t].cancel /\ consolidating[l] # "again" /\ LoopEnds(t)
           \/ /\ ~task[t].cancel /\ consolidating[l] = "again"
              /\ consolidating' = [consolidating EXCEPT ![l] = "once"]
              /\ request' = [request EXCEPT ![l] = FALSE]
              /\ UNCHANGED task
    /\ UNCHANGED <<hostVars, tasks, seeding, turnVars>>

(* The done callbacks: _reap, and for a seed first its own.                 *)
Reap(t) ==
    /\ ~Busy(t) /\ t \in tasks
    /\ tasks' = tasks \ {t}
    /\ seeding' = [l \in Learner |-> IF seeding[l] = t THEN NoTask ELSE seeding[l]]
    /\ UNCHANGED <<hostVars, task, consolidating, turnVars, request>>

------------------------------------------------------------------------------
TaskStep(t) ==
    \/ NeverRuns(t) \/ CallBegins(t) \/ SeedEnds(t) \/ IngestEnds(t)
    \/ LoopStarts(t) \/ SeedAwaited(t) \/ RunEnds(t) \/ Reap(t)

LifeStep == StartOk \/ StartFail \/ CloseDrained \/ CloseDone

Next ==
    \/ StartBegin \/ CloseBegin \/ LifeStep
    \/ \E l \in Learner : SeedSoon(l) \/ FirstRequest(l) \/ MoreRequests(l)
    \/ \E c \in Turn : LogBegin(c) \/ LogCancelled(c)
    \/ \E t \in Slot : TaskStep(t)

Spec == Init /\ [][Next]_vars

(* The event loop runs whatever is ready, and calls of the database and of  *)
(* the models return or raise.                                              *)
FairSpec == Spec /\ WF_vars(LifeStep) /\ \A t \in Slot : WF_vars(TaskStep(t))

------------------------------------------------------------------------------
Loops(l) == {t \in Slot : Busy(t) /\ task[t].kind = "loop" /\ task[t].who = l}
Seeds(l) == {t \in Slot : Busy(t) /\ task[t].kind = "seed" /\ task[t].who = l}

(* consumer-sdk.md: host.memory is a live Engram, never None, while the     *)
(* host is enabled; and no background call ever outlives its pool.          *)
CallsHavePool ==
    /\ enabled => engine = "open"
    /\ \A t \in Slot : task[t].st = "calling" => engine = "open"

(* is_consolidating and is_seeding tell the truth, and each learner has at  *)
(* most one loop and one seed: no flag outlives its task (the host would    *)
(* refuse that learner for ever) and no task outlives its flag.             *)
FlagsMatchTasks ==
    life = "none" =>
        \A l \in Learner :
            /\ Cardinality(Loops(l)) = IF consolidating[l] = "none" THEN 0 ELSE 1
            /\ Cardinality(Seeds(l)) = IF SeedInFlight(l) THEN 1 ELSE 0

(* _safe_ingest: cancelling the turn never costs its event.                 *)
WriteOutlivesCaller ==
    [][\A c \in Turn : write'[c] = "lost" => write[c] = "lost" \/ life = "draining"]_vars

(* consumer-sdk.md: aclose() drains the log_* tasks, so an accepted event   *)
(* is written unless the database refuses it.                               *)
CloseDrainsWrites == \A c \in Turn : write[c] # "lost"

(* Every request is followed by a run that begins after it, or by aclose.   *)
RequestServed == \A l \in Learner : request[l] ~> ~request[l]

(* aclose() returns.                                                        *)
CloseReturns == life = "draining" ~> life = "none"

(* Runs that consolidate_soon still owes a learner: the first, the rerun.   *)
Owed(l) ==
    IF ~enabled THEN 0
    ELSE (IF \E t \in Loops(l) : task[t].st # "calling" THEN 1 ELSE 0)
         + (IF consolidating[l] = "again" THEN 1 ELSE 0)

Running(l) == Cardinality({t \in Loops(l) : task[t].st = "calling"})

(* The loop and its flags implement the promise of consolidate_soon.        *)
Coalesced == INSTANCE Coalescer WITH
                 owed <- [l \in Learner |-> Owed(l)],
                 running <- [l \in Learner |-> Running(l)]

CoalescedSpec == Coalesced!Spec
================================================================================
