------------------------------ MODULE HostProofs ------------------------------
(***************************************************************************)
(* Background tasks against start() and aclose(), for any learners, turns  *)
(* and number of tasks: every task finds its pool, every flag its task,    *)
(* and the loop with its flags implements module Coalescer.                *)
(***************************************************************************)
EXTENDS EngramHost, FiniteSetTheorems, TLAPS

(* started says that connect() succeeded, and only while no aclose runs.    *)
LifeSound ==
    /\ started => life = "none" /\ ~failed /\ engine = "open"
    /\ failed => life = "none"

(* A task with work left runs on an open pool, and is cancelled exactly     *)
(* while aclose drains it.                                                  *)
TasksOwned ==
    \A t \in Slot : Busy(t) =>
        /\ engine = "open"
        /\ started \/ life = "draining"
        /\ task[t].cancel <=> life = "draining"

(* Whom a task is for, and what it may wait for.                            *)
TasksTyped ==
    \A t \in Slot : Busy(t) =>
        /\ task[t].who \in IF task[t].kind = "ingest" THEN Turn ELSE Learner
        /\ task[t].st = "waiting" => task[t].kind = "loop" /\ task[t].on \in Slot

(* One loop per learner, under its flag.                                    *)
OneLoop ==
    \A t \in Slot : Busy(t) /\ task[t].kind = "loop" =>
        /\ consolidating[task[t].who] # "none"
        /\ \A u \in Loops(task[t].who) : u = t

(* Only aclose ends a loop and leaves its flag, until it clears the dict.   *)
FlagsOwned ==
    \A l \in Learner : consolidating[l] # "none" =>
        life = "draining" \/ (started /\ Loops(l) # {})

(* One seed per learner, under its entry.                                   *)
OneSeed ==
    /\ \A t \in Slot : Busy(t) /\ task[t].kind = "seed" => seeding[task[t].who] = t
    /\ \A l \in Learner : SeedInFlight(l) => seeding[l] \in Seeds(l)

HInv == /\ HostTypeOK /\ LifeSound /\ TasksOwned /\ TasksTyped
        /\ OneLoop /\ FlagsOwned /\ OneSeed

------------------------------------------------------------------------------
(* A task with work left differs from one without.                          *)
LEMMA TaskIsNotDone == \A r \in Task : r # Done /\ r.st # "done"
  BY DEF Task, Done

(* A slot is busy exactly while its task has work left.                     *)
LEMMA BusyTask ==
    ASSUME HostTypeOK, NEW t \in Slot
    PROVE  /\ Busy(t) <=> task[t] \in Task
           /\ ~Busy(t) => task[t].st = "done"
  BY TaskIsNotDone DEF HostTypeOK, Busy, Done

(* A new task has not begun and waits for nothing.                          *)
LEMMA NewTaskType ==
    ASSUME NEW kind \in {"seed", "loop", "ingest"}, NEW who \in Learner \cup Turn
    PROVE  /\ NewTask(kind, who) \in Task
           /\ NewTask(kind, who).kind = kind /\ NewTask(kind, who).who = who
           /\ NewTask(kind, who).st = "created" /\ ~NewTask(kind, who).cancel
           /\ NewTask(kind, who).on = NoTask
  BY DEF NewTask, Task

(* A new host has no tasks.                                                 *)
LEMMA InitHInv == Init => HInv
<1> SUFFICES ASSUME Init PROVE HInv
  OBVIOUS
<1>1. \A t \in Slot : ~Busy(t)
  BY DEF Init, Busy
<1>2. HostTypeOK
  BY <1>1 DEF Init, HostTypeOK, Unopened
<1>3. \A l \in Learner : ~SeedInFlight(l)
  BY DEF Init, SeedInFlight
<1> QED
  BY <1>1, <1>2, <1>3 DEF Init, HInv, LifeSound, TasksOwned, TasksTyped, OneLoop, FlagsOwned, OneSeed

(* Steps of start() and aclose() that leave the tasks alone.                *)
LEMMA LifeSteps ==
    ASSUME HInv, StartBegin \/ StartOk \/ StartFail \/ CloseDrained \/ CloseDone
    PROVE  HInv'
<1> USE DEF HInv
<1>0. UNCHANGED task
  BY DEF StartBegin, StartOk, StartFail, CloseDrained, CloseDone
<1>1. \A t \in Slot : Busy(t)' <=> Busy(t)
  BY <1>0 DEF Busy
<1>2. ASSUME (life # "draining" /\ ~started) \/ (\A u \in tasks : ~Busy(u)), NEW t \in Slot
      PROVE  ~Busy(t)
  BY <1>2 DEF HostTypeOK, TasksOwned
<1>3. CASE StartBegin
  BY <1>0, <1>1, <1>2, <1>3 DEF StartBegin, enabled, HostTypeOK, LifeSound, TasksOwned, TasksTyped, OneLoop,
     FlagsOwned, OneSeed, SeedInFlight, turnVars
<1>4. CASE StartOk
  BY <1>0, <1>1, <1>2, <1>4 DEF StartOk, HostTypeOK, LifeSound, TasksOwned, TasksTyped, OneLoop,
     FlagsOwned, OneSeed, SeedInFlight, turnVars
<1>5. CASE StartFail
  BY <1>0, <1>1, <1>2, <1>5 DEF StartFail, Unopened, HostTypeOK, LifeSound, TasksOwned, TasksTyped, OneLoop,
     FlagsOwned, OneSeed, SeedInFlight, turnVars
<1>6. CASE CloseDrained
  BY <1>0, <1>1, <1>2, <1>6, HostAssumption DEF CloseDrained, HostTypeOK, LifeSound, TasksOwned, TasksTyped, OneLoop,
     FlagsOwned, OneSeed, SeedInFlight, turnVars
<1>7. CASE CloseDone
  BY <1>0, <1>1, <1>2, <1>7 DEF CloseDone, Unopened, HostTypeOK, LifeSound, TasksOwned, TasksTyped, OneLoop,
     FlagsOwned, OneSeed, SeedInFlight, turnVars
<1> QED
  BY <1>3, <1>4, <1>5, <1>6, <1>7

(* aclose begins: every task is told.                                       *)
LEMMA CloseBeginStep ==
    ASSUME HInv, CloseBegin
    PROVE  HInv'
<1> USE DEF HInv
<1>1. /\ life = "none" /\ life' = "draining" /\ ~started' /\ ~failed'
      /\ UNCHANGED <<engine, tasks, consolidating, seeding, caller, write>>
      /\ request' = [l \in Learner |-> FALSE]
  BY DEF CloseBegin, turnVars
<1>2. \A t \in Slot : task[t] \in Task =>
        /\ [task[t] EXCEPT !.cancel = TRUE] \in Task
        /\ [task[t] EXCEPT !.cancel = TRUE].cancel = TRUE
        /\ [task[t] EXCEPT !.cancel = TRUE].kind = task[t].kind
        /\ [task[t] EXCEPT !.cancel = TRUE].who = task[t].who
        /\ [task[t] EXCEPT !.cancel = TRUE].st = task[t].st
        /\ [task[t] EXCEPT !.cancel = TRUE].on = task[t].on
  BY DEF Task
<1>3. \A t \in Slot : task'[t] = IF Busy(t) THEN [task[t] EXCEPT !.cancel = TRUE] ELSE task[t]
  BY DEF CloseBegin, HostTypeOK
<1>4. /\ task' \in [Slot -> Task \cup {Done}]
      /\ \A t \in Slot : Busy(t)' <=> Busy(t)
      /\ \A t \in Slot : Busy(t) =>
            /\ task'[t].cancel /\ task'[t].kind = task[t].kind /\ task'[t].who = task[t].who
            /\ task'[t].st = task[t].st /\ task'[t].on = task[t].on
  <2>1. task' \in [Slot -> Task \cup {Done}]
    BY <1>2, <1>3, BusyTask DEF CloseBegin, HostTypeOK
  <2>2. \A t \in Slot : Busy(t)' <=> Busy(t)
    BY <1>2, <1>3, BusyTask, TaskIsNotDone DEF Busy
  <2> QED
    BY <1>2, <1>3, <2>1, <2>2, BusyTask
<1>5. \A l \in Learner : Loops(l)' = Loops(l) /\ Seeds(l)' = Seeds(l)
  BY <1>4 DEF Loops, Seeds
<1>6. HostTypeOK'
  <2>1. {t \in Slot : Busy(t)'} \subseteq tasks'
    BY <1>1, <1>4 DEF HostTypeOK
  <2>2. request' \in [Learner -> BOOLEAN] /\ started' = FALSE /\ failed' = FALSE
    BY <1>1 DEF CloseBegin
  <2> QED
    BY <1>1, <1>4, <2>1, <2>2 DEF HostTypeOK
<1>7. OneLoop' /\ FlagsOwned'
  BY <1>1, <1>4, <1>5 DEF OneLoop, FlagsOwned, TasksTyped
<1>8. OneSeed'
  BY <1>1, <1>4, <1>5 DEF OneSeed, SeedInFlight, HostTypeOK
<1>9. LifeSound' /\ TasksOwned' /\ TasksTyped'
  BY <1>1, <1>4 DEF LifeSound, TasksOwned, TasksTyped
<1> QED
  BY <1>6, <1>7, <1>8, <1>9

(* A new task takes a slot that nobody uses or waits for.                   *)
LEMMA SpawnStep ==
    ASSUME HInv, NEW kind \in {"seed", "loop", "ingest"}, NEW who \in Learner \cup Turn,
           Spawn(kind, who)
    PROVE  /\ NewSlot \in Slot /\ ~Busy(NewSlot)
           /\ \A l \in Learner : seeding[l] # NewSlot
           /\ task' \in [Slot -> Task \cup {Done}]
           /\ tasks' \subseteq Slot /\ {t \in Slot : Busy(t)'} \subseteq tasks'
           /\ task'[NewSlot] = NewTask(kind, who)
           /\ \A t \in Slot : t # NewSlot => task'[t] = task[t]
           /\ \A t \in Slot : Busy(t)' <=> Busy(t) \/ t = NewSlot
<1>1. NewSlot \in FreeSlots
  BY DEF Spawn, NewSlot
<1>2. NewSlot \in Slot /\ ~Busy(NewSlot) /\ \A l \in Learner : seeding[l] # NewSlot
  BY <1>1 DEF FreeSlots
<1>3. task' = [task EXCEPT ![NewSlot] = NewTask(kind, who)] /\ tasks' = tasks \cup {NewSlot}
  BY DEF Spawn
<1> HIDE DEF NewSlot
<1>4. NewTask(kind, who) \in Task
  BY NewTaskType
<1> QED
  BY <1>2, <1>3, <1>4, TaskIsNotDone DEF HInv, HostTypeOK, Busy

(* seed_soon spawns at most one seed for a learner.                         *)
LEMMA SeedSoonStep ==
    ASSUME HInv, NEW l \in Learner, SeedSoon(l)
    PROVE  HInv'
<1> USE DEF HInv
<1>1. /\ started /\ ~failed /\ ~SeedInFlight(l) /\ Spawn("seed", l)
      /\ seeding' = [seeding EXCEPT ![l] = NewSlot]
      /\ UNCHANGED <<started, failed, engine, life, consolidating, caller, write, request>>
  BY DEF SeedSoon, enabled, hostVars, turnVars
<1> DEFINE n == NewSlot
<1>2. /\ n \in Slot /\ ~Busy(n) /\ \A m \in Learner : seeding[m] # n
      /\ task' \in [Slot -> Task \cup {Done}]
      /\ tasks' \subseteq Slot /\ {t \in Slot : Busy(t)'} \subseteq tasks'
      /\ task'[n] = NewTask("seed", l)
      /\ \A t \in Slot : t # n => task'[t] = task[t]
      /\ \A t \in Slot : Busy(t)' <=> Busy(t) \/ t = n
  BY <1>1, SpawnStep
<1>3. /\ task'[n].kind = "seed" /\ task'[n].who = l /\ task'[n].st = "created"
      /\ ~task'[n].cancel /\ task'[n].on = NoTask
  BY <1>2, NewTaskType
<1>4. seeding' \in [Learner -> Slot \cup {NoTask}] /\ seeding'[l] = n
      /\ \A m \in Learner : m # l => seeding'[m] = seeding[m]
  BY <1>1, <1>2 DEF HostTypeOK
<1> HIDE DEF n
<1>5. HostTypeOK'
  BY <1>1, <1>2, <1>4 DEF HostTypeOK
<1>6. LifeSound' /\ TasksOwned' /\ TasksTyped'
  BY <1>1, <1>2, <1>3 DEF LifeSound, TasksOwned, TasksTyped
<1>7. \A m \in Learner : Loops(m)' = Loops(m)
  BY <1>2, <1>3 DEF Loops
<1>8. OneLoop' /\ FlagsOwned'
  BY <1>1, <1>2, <1>3, <1>7 DEF OneLoop, FlagsOwned, TasksTyped
<1>9. OneSeed'
  <2>1. ASSUME NEW t \in Slot, Busy(t)', task'[t].kind = "seed"
        PROVE  seeding'[task'[t].who] = t
    <3>1. CASE t = n
      BY <1>3, <1>4, <3>1
    <3>2. CASE t # n
      <4>1. Busy(t) /\ task'[t] = task[t] /\ seeding[task[t].who] = t /\ task[t].who \in Learner
        BY <1>2, <2>1, <3>2 DEF OneSeed, TasksTyped
      <4>2. task[t].who # l
        BY <1>1, <4>1, HostAssumption DEF SeedInFlight
      <4> QED
        BY <1>4, <4>1, <4>2
    <3> QED
      BY <3>1, <3>2
  <2>2. ASSUME NEW m \in Learner, SeedInFlight(m)'
        PROVE  seeding'[m] \in Seeds(m)'
    <3>1. CASE m = l
      BY <1>2, <1>3, <1>4, <3>1 DEF Seeds
    <3>2. CASE m # l
      <4>1. SeedInFlight(m) /\ seeding[m] # n /\ seeding[m] \in Slot
        BY <1>2, <1>4, <2>2, <3>2 DEF SeedInFlight, HostTypeOK
      <4> QED
        BY <1>2, <1>4, <3>2, <4>1 DEF OneSeed, Seeds
    <3> QED
      BY <3>1, <3>2
  <2> QED
    BY <2>1, <2>2 DEF OneSeed
<1> QED
  BY <1>5, <1>6, <1>8, <1>9

(* consolidate_soon spawns a loop when none runs for the learner.           *)
LEMMA FirstRequestStep ==
    ASSUME HInv, NEW l \in Learner, FirstRequest(l)
    PROVE  HInv'
<1> USE DEF HInv
<1>1. /\ started /\ ~failed /\ consolidating[l] = "none" /\ Spawn("loop", l)
      /\ consolidating' = [consolidating EXCEPT ![l] = "once"]
      /\ request' = [request EXCEPT ![l] = TRUE]
      /\ UNCHANGED <<started, failed, engine, life, seeding, caller, write>>
  BY DEF FirstRequest, enabled, hostVars, turnVars
<1> DEFINE n == NewSlot
<1>2. /\ n \in Slot /\ ~Busy(n) /\ \A m \in Learner : seeding[m] # n
      /\ task' \in [Slot -> Task \cup {Done}]
      /\ tasks' \subseteq Slot /\ {t \in Slot : Busy(t)'} \subseteq tasks'
      /\ task'[n] = NewTask("loop", l)
      /\ \A t \in Slot : t # n => task'[t] = task[t]
      /\ \A t \in Slot : Busy(t)' <=> Busy(t) \/ t = n
  BY <1>1, SpawnStep
<1>3. /\ task'[n].kind = "loop" /\ task'[n].who = l /\ task'[n].st = "created"
      /\ ~task'[n].cancel /\ task'[n].on = NoTask
  BY <1>2, NewTaskType
<1>4. consolidating' \in [Learner -> {"none", "once", "again"}] /\ consolidating'[l] = "once"
      /\ \A m \in Learner : m # l => consolidating'[m] = consolidating[m]
  BY <1>1 DEF HostTypeOK
<1> HIDE DEF n
<1>5. HostTypeOK'
  BY <1>1, <1>2, <1>4 DEF HostTypeOK
<1>6. LifeSound' /\ TasksOwned' /\ TasksTyped'
  BY <1>1, <1>2, <1>3 DEF LifeSound, TasksOwned, TasksTyped
<1>7. \A m \in Learner : m # l => Loops(m)' = Loops(m)
  BY <1>2, <1>3 DEF Loops
<1>8. Loops(l)' = {n}
  <2>1. Loops(l) = {}
    BY <1>1 DEF OneLoop, Loops
  <2> QED
    BY <1>2, <1>3, <2>1 DEF Loops
<1>9. OneLoop'
  BY <1>1, <1>2, <1>3, <1>4, <1>7, <1>8 DEF OneLoop, TasksTyped, Loops
<1>10. FlagsOwned'
  BY <1>1, <1>4, <1>7, <1>8 DEF FlagsOwned
<1>11. OneSeed'
  BY <1>1, <1>2, <1>3 DEF OneSeed, SeedInFlight, Seeds, HostTypeOK
<1> QED
  BY <1>5, <1>6, <1>9, <1>10, <1>11

(* log_* spawns the shielded write.                                         *)
LEMMA LogBeginStep ==
    ASSUME HInv, NEW c \in Turn, LogBegin(c)
    PROVE  HInv'
<1> USE DEF HInv
<1>1. /\ started /\ ~failed /\ Spawn("ingest", c)
      /\ caller' = [caller EXCEPT ![c] = "waiting"]
      /\ write' = [write EXCEPT ![c] = "pending"]
      /\ UNCHANGED <<started, failed, engine, life, consolidating, seeding, request>>
  BY DEF LogBegin, enabled, hostVars
<1> DEFINE n == NewSlot
<1>2. /\ n \in Slot /\ ~Busy(n) /\ \A m \in Learner : seeding[m] # n
      /\ task' \in [Slot -> Task \cup {Done}]
      /\ tasks' \subseteq Slot /\ {t \in Slot : Busy(t)'} \subseteq tasks'
      /\ task'[n] = NewTask("ingest", c)
      /\ \A t \in Slot : t # n => task'[t] = task[t]
      /\ \A t \in Slot : Busy(t)' <=> Busy(t) \/ t = n
  BY <1>1, SpawnStep
<1>3. /\ task'[n].kind = "ingest" /\ task'[n].who = c /\ task'[n].st = "created"
      /\ ~task'[n].cancel /\ task'[n].on = NoTask
  BY <1>2, NewTaskType
<1> HIDE DEF n
<1>4. HostTypeOK'
  BY <1>1, <1>2 DEF HostTypeOK
<1>5. LifeSound' /\ TasksOwned' /\ TasksTyped'
  BY <1>1, <1>2, <1>3 DEF LifeSound, TasksOwned, TasksTyped
<1>6. \A m \in Learner : Loops(m)' = Loops(m)
  BY <1>2, <1>3 DEF Loops
<1>7. OneLoop' /\ FlagsOwned'
  BY <1>1, <1>2, <1>3, <1>6 DEF OneLoop, FlagsOwned, TasksTyped
<1>8. OneSeed'
  BY <1>1, <1>2, <1>3 DEF OneSeed, SeedInFlight, Seeds, HostTypeOK
<1> QED
  BY <1>4, <1>5, <1>7, <1>8

(* Further requests, cancelled callers and the reaper end no task.          *)
LEMMA NoTaskSteps ==
    ASSUME HInv,
           \/ \E l \in Learner : MoreRequests(l)
           \/ \E c \in Turn : LogCancelled(c)
           \/ \E t \in Slot : Reap(t)
           \/ UNCHANGED vars
    PROVE  HInv'
<1> USE DEF HInv
<1>1. ASSUME NEW l \in Learner, MoreRequests(l)
      PROVE  HInv'
  <2>1. /\ started /\ consolidating[l] # "none"
        /\ consolidating' = [consolidating EXCEPT ![l] = "again"]
        /\ request' = [request EXCEPT ![l] = TRUE]
        /\ UNCHANGED <<started, failed, engine, life, task, tasks, seeding, caller, write>>
    BY <1>1 DEF MoreRequests, enabled, hostVars, turnVars
  <2>2. HostTypeOK' /\ LifeSound' /\ TasksOwned' /\ TasksTyped'
    BY <2>1 DEF HostTypeOK, LifeSound, TasksOwned, TasksTyped, Busy
  <2>3. \A m \in Learner : Loops(m)' = Loops(m) /\ Seeds(m)' = Seeds(m)
    BY <2>1 DEF Loops, Seeds, Busy
  <2>4. OneLoop' /\ FlagsOwned' /\ OneSeed'
    BY <2>1, <2>3 DEF OneLoop, FlagsOwned, OneSeed, SeedInFlight, TasksTyped, HostTypeOK, Busy
  <2> QED
    BY <2>2, <2>4
<1>2. ASSUME NEW c \in Turn, LogCancelled(c)
      PROVE  HInv'
  <2>1. /\ caller' = [caller EXCEPT ![c] = "cancelled"]
        /\ UNCHANGED <<started, failed, engine, life, task, tasks, consolidating, seeding, write, request>>
    BY <1>2 DEF LogCancelled, hostVars
  <2> QED
    BY <2>1 DEF HostTypeOK, LifeSound, TasksOwned, TasksTyped, Busy, OneLoop, FlagsOwned, OneSeed,
       SeedInFlight, Loops, Seeds
<1>3. ASSUME NEW t \in Slot, Reap(t)
      PROVE  HInv'
  <2>1. /\ ~Busy(t) /\ tasks' = tasks \ {t}
        /\ seeding' = [l \in Learner |-> IF seeding[l] = t THEN NoTask ELSE seeding[l]]
        /\ UNCHANGED <<started, failed, engine, life, task, consolidating, caller, write, request>>
    BY <1>3 DEF Reap, hostVars, turnVars
  <2>2. HostTypeOK' /\ LifeSound' /\ TasksOwned' /\ TasksTyped'
    BY <2>1 DEF HostTypeOK, LifeSound, TasksOwned, TasksTyped, Busy
  <2>3. OneLoop' /\ FlagsOwned'
    BY <2>1 DEF OneLoop, FlagsOwned, Loops, Busy
  <2>4. \A m \in Learner : Seeds(m)' = Seeds(m)
    BY <2>1 DEF Seeds, Busy
  <2>5. \A m \in Learner : SeedInFlight(m)' => SeedInFlight(m) /\ seeding'[m] = seeding[m]
    BY <2>1 DEF SeedInFlight, Busy
  <2>6. \A u \in Slot : Busy(u)' /\ task'[u].kind = "seed" => seeding'[task'[u].who] = u
    BY <2>1 DEF OneSeed, TasksTyped, Busy
  <2> QED
    BY <2>2, <2>3, <2>4, <2>5, <2>6 DEF OneSeed
<1>4. CASE UNCHANGED vars
  BY <1>4 DEF vars, hostVars, turnVars, HostTypeOK, LifeSound, TasksOwned, TasksTyped, Busy, OneLoop, FlagsOwned,
     OneSeed, SeedInFlight, Loops, Seeds
<1> QED
  BY <1>1, <1>2, <1>3, <1>4

(* A task ends: a seed or a write, one that aclose cancelled, or a loop     *)
(* that takes its flag along.                                               *)
LEMMA TaskEnds ==
    ASSUME HInv, NEW t \in Slot, Busy(t), task' = Ended(t),
           UNCHANGED <<hostVars, tasks, seeding, request>>,
           caller' \in [Turn -> {"idle", "waiting", "true", "false", "raised", "cancelled"}],
           write' \in [Turn -> {"none", "pending", "stored", "failed", "lost"}],
           \/ /\ UNCHANGED consolidating
              /\ task[t].kind # "loop" \/ task[t].cancel
           \/ /\ task[t].kind = "loop"
              /\ consolidating' = [consolidating EXCEPT ![task[t].who] = "none"]
    PROVE  HInv'
<1> USE DEF HInv
<1>1. /\ task' \in [Slot -> Task \cup {Done}] /\ ~Busy(t)'
      /\ \A u \in Slot : u # t => task'[u] = task[u]
      /\ \A u \in Slot : Busy(u)' <=> Busy(u) /\ u # t
  BY TaskIsNotDone DEF Ended, HostTypeOK, Busy
<1>2. /\ UNCHANGED <<started, failed, engine, life>>
      /\ task[t].kind = "loop" => task[t].who \in Learner
  BY DEF hostVars, TasksTyped
<1>3. HostTypeOK'
  <2>1. {u \in Slot : Busy(u)'} \subseteq tasks'
    BY <1>1 DEF HostTypeOK
  <2> QED
    BY <1>1, <1>2, <2>1 DEF HostTypeOK
<1>4. LifeSound' /\ TasksOwned' /\ TasksTyped'
  BY <1>1, <1>2 DEF LifeSound, TasksOwned, TasksTyped
<1>5. \A l \in Learner : Loops(l)' = Loops(l) \ {t} /\ Seeds(l)' = Seeds(l) \ {t}
  BY <1>1 DEF Loops, Seeds
<1>6. OneLoop'
  <2> DEFINE who == task[t].who
  <2>1. \A u \in Slot : Busy(u) /\ task[u].kind = "loop" /\ u # t =>
          /\ task[u].who \in Learner /\ consolidating[task[u].who] # "none"
          /\ \A v \in Loops(task[u].who) : v = u
          /\ task[t].kind = "loop" => task[u].who # who
    BY DEF OneLoop, TasksTyped, Loops
  <2>2. \A l \in Learner : consolidating'[l] # consolidating[l] => task[t].kind = "loop" /\ l = who
    BY <1>2 DEF HostTypeOK
  <2> HIDE DEF who
  <2>3. \A u \in Slot : Busy(u)' /\ task'[u].kind = "loop" =>
          /\ u # t /\ Busy(u) /\ task'[u] = task[u] /\ task[u].kind = "loop"
    BY <1>1
  <2>4. \A u \in Slot : Busy(u)' /\ task'[u].kind = "loop" =>
          /\ consolidating'[task[u].who] # "none"
          /\ \A v \in Loops(task[u].who)' : v = u
    BY <1>5, <2>1, <2>2, <2>3
  <2> QED
    BY <2>3, <2>4 DEF OneLoop
<1>7. FlagsOwned'
  <2> SUFFICES ASSUME NEW l \in Learner, consolidating'[l] # "none", life # "draining"
               PROVE  started /\ Loops(l)' # {}
    BY <1>2 DEF FlagsOwned
  <2>1. consolidating[l] # "none" /\ (task[t].kind = "loop" => task[t].who # l)
    BY <1>2 DEF HostTypeOK, TasksOwned
  <2>2. started /\ Loops(l) # {} /\ t \notin Loops(l)
    BY <2>1 DEF FlagsOwned, Loops
  <2> QED
    BY <1>5, <2>2
<1>8. OneSeed'
  BY <1>1, <1>5 DEF OneSeed, SeedInFlight, HostTypeOK
<1> QED
  BY <1>3, <1>4, <1>6, <1>7, <1>8

(* A task goes on: only its place and what it waits for change.             *)
LEMMA TaskGoesOn ==
    ASSUME HInv, NEW t \in Slot, Busy(t), UNCHANGED <<hostVars, tasks, seeding, turnVars>>,
           task' \in [Slot -> Task \cup {Done}],
           \A u \in Slot : u # t => task'[u] = task[u],
           task'[t] \in Task,
           task'[t].kind = task[t].kind, task'[t].who = task[t].who, task'[t].cancel = task[t].cancel,
           task'[t].st = "waiting" => task[t].kind = "loop" /\ task'[t].on \in Slot,
           request' \in [Learner -> BOOLEAN],
           consolidating' \in [Learner -> {"none", "once", "again"}],
           \A l \in Learner : consolidating'[l] = "none" <=> consolidating[l] = "none"
    PROVE  HInv'
<1> USE DEF HInv
<1>1. /\ \A u \in Slot : Busy(u)' <=> Busy(u)
      /\ UNCHANGED <<started, failed, engine, life>>
  BY TaskIsNotDone DEF Busy, hostVars
<1>2. HostTypeOK'
  <2>1. {u \in Slot : Busy(u)'} \subseteq tasks'
    BY <1>1 DEF HostTypeOK
  <2> QED
    BY <1>1, <2>1 DEF HostTypeOK, turnVars
<1>3. LifeSound' /\ TasksOwned' /\ TasksTyped'
  BY <1>1 DEF LifeSound, TasksOwned, TasksTyped
<1>4. \A l \in Learner : Loops(l)' = Loops(l) /\ Seeds(l)' = Seeds(l)
  BY <1>1 DEF Loops, Seeds
<1>5. OneLoop'
  BY <1>1, <1>4 DEF OneLoop, TasksTyped
<1>6. FlagsOwned'
  BY <1>1, <1>4 DEF FlagsOwned
<1>7. OneSeed'
  BY <1>1, <1>4 DEF OneSeed, SeedInFlight, HostTypeOK
<1> QED
  BY <1>2, <1>3, <1>5, <1>6, <1>7

(* The updates of a task's record.                                          *)
LEMMA TaskRecord ==
    ASSUME NEW r \in Task, NEW st \in {"created", "waiting", "calling"}, NEW on \in Slot \cup {NoTask}
    PROVE  LET q == [r EXCEPT !.st = st, !.on = on]
               p == [r EXCEPT !.st = st]
           IN  /\ q \in Task /\ q.kind = r.kind /\ q.who = r.who /\ q.cancel = r.cancel
               /\ q.st = st /\ q.on = on
               /\ p \in Task /\ p.kind = r.kind /\ p.who = r.who /\ p.cancel = r.cancel
               /\ p.st = st /\ p.on = r.on
  BY DEF Task

(* A write that ends answers its caller and settles its event.              *)
LEMMA AnswerType ==
    ASSUME HInv, NEW t \in Slot, Busy(t), task[t].kind = "ingest",
           NEW res, NEW fate \in {"stored", "failed", "lost"}, Answer(t, res, fate)
    PROVE  /\ task' = Ended(t)
           /\ caller' \in [Turn -> {"idle", "waiting", "true", "false", "raised", "cancelled"}]
           /\ write' \in [Turn -> {"none", "pending", "stored", "failed", "lost"}]
  BY DEF Answer, HInv, HostTypeOK

(* Steps of seeds and writes, and of tasks cancelled before they began.     *)
LEMMA WriteSteps ==
    ASSUME HInv, NEW t \in Slot,
           NeverRuns(t) \/ CallBegins(t) \/ SeedEnds(t) \/ IngestEnds(t)
    PROVE  HInv'
<1>1. CASE NeverRuns(t)
  <2>1. /\ Busy(t) /\ task[t].cancel
        /\ UNCHANGED <<hostVars, tasks, consolidating, seeding, request>>
    BY <1>1 DEF NeverRuns
  <2>2. CASE task[t].kind = "ingest"
    BY <1>1, <2>1, <2>2, AnswerType, TaskEnds DEF NeverRuns
  <2>3. CASE task[t].kind # "ingest"
    BY <1>1, <2>1, <2>3, TaskEnds DEF NeverRuns, turnVars, HInv, HostTypeOK
  <2> QED
    BY <2>2, <2>3
<1>2. CASE CallBegins(t)
  <2> DEFINE q == [task[t] EXCEPT !.st = "calling"]
  <2>1. /\ Busy(t) /\ task[t] \in Task /\ task' = [task EXCEPT ![t] = q]
        /\ UNCHANGED <<hostVars, tasks, consolidating, seeding, turnVars, request>>
    BY <1>2, BusyTask DEF CallBegins, HInv, HostTypeOK
  <2>2. /\ q \in Task /\ q.kind = task[t].kind /\ q.who = task[t].who /\ q.cancel = task[t].cancel
        /\ q.st = "calling"
    BY <2>1 DEF Task
  <2> HIDE DEF q
  <2> QED
    BY <2>1, <2>2, TaskGoesOn DEF HInv, HostTypeOK
<1>3. CASE SeedEnds(t)
  BY <1>3, TaskEnds DEF SeedEnds, turnVars, HInv, HostTypeOK
<1>4. CASE IngestEnds(t)
  <2>1. /\ Busy(t) /\ task[t].kind = "ingest"
        /\ UNCHANGED <<hostVars, tasks, consolidating, seeding, request>>
        /\ \E res \in {"ok", "failed", "cancelled"}, fate \in {"stored", "failed", "lost"} :
                Answer(t, res, fate)
    BY <1>4 DEF IngestEnds
  <2> QED
    BY <2>1, AnswerType, TaskEnds
<1> QED
  BY <1>1, <1>2, <1>3, <1>4

(* A loop's run begins and takes the learner's flag as set.                 *)
LEMMA RunBeginsStep ==
    ASSUME HInv, NEW t \in Slot, Busy(t), task[t].kind = "loop", RunBegins(t),
           UNCHANGED <<hostVars, tasks, seeding, turnVars>>
    PROVE  HInv'
<1> DEFINE q == [task[t] EXCEPT !.st = "calling", !.on = NoTask]
<1>1. task[t] \in Task /\ task[t].who \in Learner
  BY BusyTask DEF HInv, TasksTyped
<1>2. /\ q \in Task /\ q.kind = task[t].kind /\ q.who = task[t].who /\ q.cancel = task[t].cancel
      /\ q.st = "calling"
  BY <1>1 DEF Task
<1>3. /\ task' = [task EXCEPT ![t] = q] /\ UNCHANGED consolidating
      /\ request' = [request EXCEPT ![task[t].who] = FALSE]
  BY <1>1 DEF RunBegins, HInv, HostTypeOK
<1> HIDE DEF q
<1> QED
  BY <1>1, <1>2, <1>3, TaskGoesOn DEF HInv, HostTypeOK

(* A loop that ends takes its flag with it.                                 *)
LEMMA LoopEndsStep ==
    ASSUME HInv, NEW t \in Slot, Busy(t), task[t].kind = "loop", LoopEnds(t),
           UNCHANGED <<hostVars, tasks, seeding, turnVars>>
    PROVE  HInv'
  BY TaskEnds DEF LoopEnds, turnVars, HInv, HostTypeOK

(* Steps of a loop: its start, the seed it awaited, the end of a run.       *)
LEMMA LoopSteps ==
    ASSUME HInv, NEW t \in Slot, LoopStarts(t) \/ SeedAwaited(t) \/ RunEnds(t)
    PROVE  HInv'
<1>1. CASE LoopStarts(t)
  <2> DEFINE l == task[t].who
             q == [task[t] EXCEPT !.st = "waiting", !.on = seeding[l]]
  <2>1. /\ Busy(t) /\ task[t].kind = "loop" /\ task[t] \in Task /\ l \in Learner
        /\ UNCHANGED <<hostVars, tasks, seeding, turnVars>>
    BY <1>1, BusyTask DEF LoopStarts, HInv, TasksTyped
  <2>2. CASE RunBegins(t)
    BY <2>1, <2>2, RunBeginsStep
  <2>3. CASE /\ SeedInFlight(l) /\ UNCHANGED <<consolidating, request>>
             /\ task' = [task EXCEPT ![t].st = "waiting", ![t].on = seeding[l]]
    <3>1. seeding[l] \in Slot
      BY <2>1, <2>3 DEF SeedInFlight, HInv, HostTypeOK
    <3>2. /\ q \in Task /\ q.kind = task[t].kind /\ q.who = task[t].who /\ q.cancel = task[t].cancel
          /\ q.st = "waiting" /\ q.on \in Slot
      BY <2>1, <3>1 DEF Task
    <3>3. task' = [task EXCEPT ![t] = q]
      BY <2>3 DEF HInv, HostTypeOK
    <3> HIDE DEF q, l
    <3>4. /\ task' \in [Slot -> Task \cup {Done}] /\ task'[t] = q
          /\ \A u \in Slot : u # t => task'[u] = task[u]
          /\ request' \in [Learner -> BOOLEAN]
          /\ consolidating' \in [Learner -> {"none", "once", "again"}]
          /\ consolidating' = consolidating
      BY <2>3, <3>2, <3>3 DEF HInv, HostTypeOK
    <3>5. /\ task'[t] \in Task /\ task'[t].kind = task[t].kind /\ task'[t].who = task[t].who
          /\ task'[t].cancel = task[t].cancel /\ task'[t].on \in Slot
      BY <3>2, <3>4
    <3> QED
      BY <2>1, <3>4, <3>5, TaskGoesOn
  <2> QED
    BY <1>1, <2>2, <2>3 DEF LoopStarts
<1>2. CASE SeedAwaited(t)
  <2>1. Busy(t) /\ task[t].kind = "loop" /\ UNCHANGED <<hostVars, tasks, seeding, turnVars>>
    BY <1>2 DEF SeedAwaited, HInv, TasksTyped
  <2> QED
    BY <1>2, <2>1, RunBeginsStep, LoopEndsStep DEF SeedAwaited
<1>3. CASE RunEnds(t)
  <2>1. Busy(t) /\ task[t].kind = "loop" /\ UNCHANGED <<hostVars, tasks, seeding, turnVars>>
    BY <1>3 DEF RunEnds
  <2>2. CASE LoopEnds(t)
    BY <2>1, <2>2, LoopEndsStep
  <2>3. CASE ~LoopEnds(t)
    <3>1. /\ consolidating[task[t].who] = "again" /\ UNCHANGED task
          /\ consolidating' = [consolidating EXCEPT ![task[t].who] = "once"]
          /\ request' = [request EXCEPT ![task[t].who] = FALSE]
      BY <1>3, <2>3 DEF RunEnds
    <3>2. task[t] \in Task /\ task[t].who \in Learner
      BY <2>1, BusyTask DEF HInv, TasksTyped
    <3>3. task'[t].st = "waiting" => task[t].kind = "loop" /\ task'[t].on \in Slot
      BY <2>1, <3>1 DEF HInv, TasksTyped
    <3> QED
      BY <2>1, <3>1, <3>2, <3>3, TaskGoesOn DEF HInv, HostTypeOK
  <2> QED
    BY <2>2, <2>3
<1> QED
  BY <1>1, <1>2, <1>3

(* No step of the host breaks the invariant.                                *)
LEMMA HInvStep == HInv /\ [Next]_vars => HInv'
<1> SUFFICES ASSUME HInv, [Next]_vars PROVE HInv'
  OBVIOUS
<1>1. CASE StartBegin \/ CloseBegin \/ LifeStep
  BY <1>1, LifeSteps, CloseBeginStep DEF LifeStep
<1>2. ASSUME NEW l \in Learner, SeedSoon(l) \/ FirstRequest(l) \/ MoreRequests(l)
      PROVE  HInv'
  BY <1>2, SeedSoonStep, FirstRequestStep, NoTaskSteps
<1>3. ASSUME NEW c \in Turn, LogBegin(c) \/ LogCancelled(c)
      PROVE  HInv'
  BY <1>3, LogBeginStep, NoTaskSteps
<1>4. ASSUME NEW t \in Slot, TaskStep(t)
      PROVE  HInv'
  BY <1>4, WriteSteps, LoopSteps, NoTaskSteps DEF TaskStep
<1>5. CASE UNCHANGED vars
  BY <1>5, NoTaskSteps
<1> QED
  BY <1>1, <1>2, <1>3, <1>4, <1>5 DEF Next

(* The inductive invariant of the host.                                     *)
THEOREM HostInvariant == Spec => []HInv
  BY InitHInv, HInvStep, PTL DEF Spec

(* The host's variables keep their types, and every task with work left is  *)
(* in the set that aclose drains.                                           *)
THEOREM HostTypeCorrect == Spec => []HostTypeOK
<1>1. HInv => HostTypeOK
  BY DEF HInv
<1> QED
  BY <1>1, HostInvariant, PTL

(* While the host is enabled it has an open Engram, and no background call  *)
(* ever outlives its pool.                                                  *)
THEOREM CallsFindTheirPool == Spec => []CallsHavePool
<1>1. HInv => CallsHavePool
  BY BusyTask DEF HInv, LifeSound, TasksOwned, CallsHavePool, enabled
<1> QED
  BY <1>1, HostInvariant, PTL

------------------------------------------------------------------------------
(* What a learner's loop is doing, as predicates of the tasks.              *)
Waits(l) == \E t \in Loops(l) : task[t].st # "calling"
Calls(l) == \E t \in Loops(l) : task[t].st = "calling"

(* The counts of the refinement, and those of FlagsMatchTasks.              *)
WorkCounted ==
    /\ enabled <=> started
    /\ \A l \in Learner :
        /\ started /\ consolidating[l] = "again" => Waits(l) \/ Calls(l)
        /\ ~(Waits(l) /\ Calls(l))
        /\ Waits(l) \/ Calls(l) => consolidating[l] # "none"
        /\ Running(l) = IF Calls(l) THEN 1 ELSE 0
        /\ Cardinality(Loops(l)) = IF Waits(l) \/ Calls(l) THEN 1 ELSE 0
        /\ Cardinality(Seeds(l)) = IF SeedInFlight(l) THEN 1 ELSE 0

(* Each learner has one loop at most, so its counts are zero or one.        *)
LEMMA Counted == HInv => WorkCounted
<1> SUFFICES ASSUME HInv, NEW l \in Learner
             PROVE  /\ enabled <=> started
                    /\ started /\ consolidating[l] = "again" => Waits(l) \/ Calls(l)
                    /\ ~(Waits(l) /\ Calls(l))
                    /\ Waits(l) \/ Calls(l) => consolidating[l] # "none"
                    /\ Running(l) = IF Calls(l) THEN 1 ELSE 0
                    /\ Cardinality(Loops(l)) = IF Waits(l) \/ Calls(l) THEN 1 ELSE 0
                    /\ Cardinality(Seeds(l)) = IF SeedInFlight(l) THEN 1 ELSE 0
  <2>1. HInv => (enabled <=> started)
    BY DEF HInv, LifeSound, enabled
  <2> QED
    BY <2>1 DEF WorkCounted
<1>1. (enabled <=> started) /\ (started => life = "none")
  BY DEF HInv, LifeSound, enabled
<1>2. \A t \in Loops(l), u \in Loops(l) : t = u /\ consolidating[l] # "none"
  BY DEF HInv, OneLoop, Loops
<1>3. started /\ consolidating[l] = "again" => Loops(l) # {}
  BY <1>1 DEF HInv, FlagsOwned
<1>4. Cardinality({}) = 0 /\ \A x : Cardinality({x}) = 1
  BY FS_EmptySet, FS_Singleton
<1>5. Cardinality(Seeds(l)) = IF SeedInFlight(l) THEN 1 ELSE 0
  <2>1. CASE SeedInFlight(l)
    <3>1. Seeds(l) = {seeding[l]}
      BY <2>1 DEF HInv, OneSeed, Seeds
    <3> QED
      BY <1>4, <2>1, <3>1
  <2>2. CASE ~SeedInFlight(l)
    <3>1. Seeds(l) = {}
      BY <2>2, HostAssumption DEF HInv, OneSeed, Seeds, SeedInFlight
    <3> QED
      BY <1>4, <2>2, <3>1
  <2> QED
    BY <2>1, <2>2
<1>6. CASE Loops(l) = {}
  <2>1. ~Waits(l) /\ ~Calls(l) /\ {t \in Loops(l) : task[t].st = "calling"} = {}
    BY <1>6 DEF Waits, Calls
  <2>2. Running(l) = 0 /\ Cardinality(Loops(l)) = 0
    BY <1>4, <1>6, <2>1 DEF Running
  <2> QED
    BY <1>1, <1>3, <1>6, <1>5, <2>1, <2>2
<1>7. CASE Loops(l) # {}
  <2>1. PICK t \in Loops(l) : TRUE
    BY <1>7
  <2>2. Loops(l) = {t}
    BY <1>2, <2>1
  <2>3. Calls(l) <=> task[t].st = "calling"
    BY <2>2 DEF Calls
  <2>4. Waits(l) <=> task[t].st # "calling"
    BY <2>2 DEF Waits
  <2>5. {u \in Loops(l) : task[u].st = "calling"} = IF Calls(l) THEN {t} ELSE {}
    BY <2>2, <2>3
  <2>6. Running(l) = IF Calls(l) THEN 1 ELSE 0
    BY <1>4, <2>5 DEF Running
  <2>7. Cardinality(Loops(l)) = 1
    BY <1>4, <2>2
  <2> QED
    BY <1>1, <1>2, <1>5, <2>1, <2>3, <2>4, <2>6, <2>7
<1> QED
  BY <1>6, <1>7

(* is_consolidating and is_seeding tell the truth, and no learner has two   *)
(* loops or two seeds.                                                      *)
THEOREM FlagsAreTrue == Spec => []FlagsMatchTasks
<1>1. HInv => FlagsMatchTasks
  <2> SUFFICES ASSUME HInv, life = "none", NEW l \in Learner
               PROVE  /\ Cardinality(Loops(l)) = IF consolidating[l] = "none" THEN 0 ELSE 1
                      /\ Cardinality(Seeds(l)) = IF SeedInFlight(l) THEN 1 ELSE 0
    BY DEF FlagsMatchTasks
  <2>1. consolidating[l] # "none" => Loops(l) # {}
    BY DEF HInv, FlagsOwned
  <2>2. Loops(l) # {} => Waits(l) \/ Calls(l)
    BY DEF Waits, Calls
  <2> QED
    BY <2>1, <2>2, Counted DEF WorkCounted
<1> QED
  BY <1>1, HostInvariant, PTL

(* _safe_ingest: an event is lost only to the database or to aclose, never  *)
(* to the cancellation of the turn that logged it.                          *)
THEOREM CancellationCostsNoEvent == Spec => WriteOutlivesCaller
<1> DEFINE Kept == \A c \in Turn : write'[c] = "lost" => write[c] = "lost" \/ life = "draining"
<1>1. HInv /\ [Next]_vars => [Kept]_vars
  <2> SUFFICES ASSUME HInv, Next, NEW c \in Turn, write'[c] = "lost", write[c] # "lost"
               PROVE  life = "draining"
    OBVIOUS
  <2> USE DEF HInv
  <2>1. write' # write
    OBVIOUS
  <2>2. ~(StartBegin \/ CloseBegin \/ LifeStep)
    BY <2>1 DEF StartBegin, CloseBegin, LifeStep, StartOk, StartFail, CloseDrained, CloseDone, turnVars
  <2>3. \A l \in Learner : ~(SeedSoon(l) \/ FirstRequest(l) \/ MoreRequests(l))
    BY <2>1 DEF SeedSoon, FirstRequest, MoreRequests, turnVars
  <2>4. \A d \in Turn : ~(LogBegin(d) \/ LogCancelled(d))
    BY DEF LogBegin, LogCancelled, HostTypeOK
  <2>5. PICK t \in Slot : NeverRuns(t) \/ IngestEnds(t)
    BY <2>1, <2>2, <2>3, <2>4 DEF Next, TaskStep, CallBegins, SeedEnds, LoopStarts, SeedAwaited, RunEnds, Reap, turnVars
  <2>6. Busy(t) /\ (task[t].cancel \/ (IngestEnds(t) /\ ~task[t].cancel))
    BY <2>5 DEF NeverRuns, IngestEnds
  <2>7. CASE IngestEnds(t) /\ ~task[t].cancel
    BY <2>7 DEF IngestEnds, Answer, HostTypeOK
  <2> QED
    BY <2>6, <2>7 DEF TasksOwned
<1>2. [Kept]_vars => [\A c \in Turn : write'[c] = "lost" => write[c] = "lost" \/ life = "draining"]_vars
  OBVIOUS
<1> HIDE DEF Kept
<1> QED
  BY <1>1, <1>2, HostInvariant, PTL DEF Spec, WriteOutlivesCaller

------------------------------------------------------------------------------
(* The counts after a step.                                                 *)
LEMMA CountedNext == HInv' => WorkCounted'
  BY Counted, PTL

(* A step that no promise is about.                                         *)
LEMMA Quiet ==
    ASSUME WorkCounted, WorkCounted',
           \A l \in Learner : Calls(l)' <=> Calls(l),
           \/ ~started /\ ~started'
           \/ /\ started' = started
              /\ \A l \in Learner :
                    /\ Waits(l)' <=> Waits(l)
                    /\ (consolidating'[l] = "again") <=> (consolidating[l] = "again")
    PROVE  UNCHANGED Coalesced!vars
<1>1. \A l \in Learner : Running(l)' = Running(l)
  BY DEF WorkCounted
<1>2. \A l \in Learner : Owed(l) = IF ~started THEN 0
          ELSE (IF Waits(l) THEN 1 ELSE 0) + (IF consolidating[l] = "again" THEN 1 ELSE 0)
  BY DEF Owed, Waits, WorkCounted
<1>3. \A l \in Learner : Owed(l)' = IF ~started' THEN 0
          ELSE (IF Waits(l)' THEN 1 ELSE 0) + (IF consolidating'[l] = "again" THEN 1 ELSE 0)
  BY DEF Owed, Waits, WorkCounted
<1>4. \A l \in Learner : Owed(l)' = Owed(l)
  BY <1>2, <1>3
<1> QED
  BY <1>1, <1>4 DEF Coalesced!vars

(* A step that leaves every loop where it is.                               *)
LEMMA LoopsStay ==
    ASSUME \A t \in Slot : Busy(t)' /\ task'[t].kind = "loop" <=> Busy(t) /\ task[t].kind = "loop",
           \A t \in Slot : Busy(t) /\ task[t].kind = "loop" =>
               /\ task'[t].who = task[t].who
               /\ task'[t].st = "calling" <=> task[t].st = "calling"
    PROVE  \A l \in Learner : (Calls(l)' <=> Calls(l)) /\ (Waits(l)' <=> Waits(l))
  BY DEF Calls, Waits, Loops

(* A step of one loop is about its learner only.                            *)
LEMMA OneLoopMoves ==
    ASSUME HInv, NEW t \in Slot, NEW l \in Learner,
           Busy(t) => task[t].kind = "loop" /\ task[t].who = l,
           Busy(t)' => task'[t].kind = "loop" /\ task'[t].who = l,
           \A u \in Slot : u # t => task'[u] = task[u],
           Busy(t) \/ consolidating[l] = "none"
    PROVE  /\ \A m \in Learner : m # l => (Calls(m)' <=> Calls(m)) /\ (Waits(m)' <=> Waits(m))
           /\ Loops(l) = IF Busy(t) THEN {t} ELSE {}
           /\ Loops(l)' = IF Busy(t)' THEN {t} ELSE {}
           /\ Calls(l) <=> Busy(t) /\ task[t].st = "calling"
           /\ Waits(l) <=> Busy(t) /\ task[t].st # "calling"
           /\ Calls(l)' <=> Busy(t)' /\ task'[t].st = "calling"
           /\ Waits(l)' <=> Busy(t)' /\ task'[t].st # "calling"
<1>1. \A u \in Slot : u # t => (Busy(u)' <=> Busy(u))
  BY DEF Busy
<1>2. \A m \in Learner : m # l => Loops(m)' = Loops(m) /\ t \notin Loops(m)
  BY <1>1 DEF Loops
<1>3. Loops(l) = IF Busy(t) THEN {t} ELSE {}
  BY DEF HInv, OneLoop, Loops
<1>4. Loops(l)' = IF Busy(t)' THEN {t} ELSE {}
  BY <1>1, <1>3 DEF Loops
<1>5. \A m \in Learner : m # l => (Calls(m)' <=> Calls(m)) /\ (Waits(m)' <=> Waits(m))
  BY <1>2 DEF Calls, Waits, Loops
<1>6. /\ Calls(l) <=> Busy(t) /\ task[t].st = "calling"
      /\ Waits(l) <=> Busy(t) /\ task[t].st # "calling"
  BY <1>3 DEF Calls, Waits
<1>7. /\ Calls(l)' <=> Busy(t)' /\ task'[t].st = "calling"
      /\ Waits(l)' <=> Busy(t)' /\ task'[t].st # "calling"
  BY <1>4 DEF Calls, Waits
<1> QED
  BY <1>3, <1>4, <1>5, <1>6, <1>7

(* What one learner's counts become, and nobody else's.                     *)
LEMMA Recount ==
    ASSUME WorkCounted, WorkCounted', started, started', NEW l \in Learner,
           \A m \in Learner : m # l =>
               /\ Calls(m)' <=> Calls(m)
               /\ Waits(m)' <=> Waits(m)
               /\ consolidating'[m] = consolidating[m]
    PROVE  /\ \A m \in Learner : m # l => Owed(m)' = Owed(m) /\ Running(m)' = Running(m)
           /\ Owed(l) = (IF Waits(l) THEN 1 ELSE 0) + (IF consolidating[l] = "again" THEN 1 ELSE 0)
           /\ Running(l) = IF Calls(l) THEN 1 ELSE 0
           /\ Owed(l)' = (IF Waits(l)' THEN 1 ELSE 0) + (IF consolidating'[l] = "again" THEN 1 ELSE 0)
           /\ Running(l)' = IF Calls(l)' THEN 1 ELSE 0
<1>1. \A m \in Learner :
          /\ Running(m) = IF Calls(m) THEN 1 ELSE 0
          /\ Running(m)' = IF Calls(m)' THEN 1 ELSE 0
  BY DEF WorkCounted
<1>2. \A m \in Learner : Owed(m) =
          (IF Waits(m) THEN 1 ELSE 0) + (IF consolidating[m] = "again" THEN 1 ELSE 0)
  BY DEF Owed, Waits, WorkCounted
<1>3. \A m \in Learner : Owed(m)' =
          (IF Waits(m)' THEN 1 ELSE 0) + (IF consolidating'[m] = "again" THEN 1 ELSE 0)
  BY DEF Owed, Waits, WorkCounted
<1>4. \A m \in Learner : m # l => Owed(m)' = Owed(m) /\ Running(m)' = Running(m)
  BY <1>1, <1>2, <1>3
<1> QED
  BY <1>1, <1>2, <1>3, <1>4

(* The abstract steps, learner by learner.                                  *)
LEMMA AbstractSteps ==
    ASSUME NEW l \in Learner,
           \A m \in Learner : m # l => Owed(m)' = Owed(m) /\ Running(m)' = Running(m)
    PROVE  /\ /\ Owed(l)' = IF Running(l) = 1 \/ Owed(l) = 0 THEN 1 ELSE 2
              /\ Running(l)' = Running(l)
              => Coalesced!Ask(l)
           /\ /\ Owed(l) > 0 /\ Running(l) = 0
              /\ Owed(l)' = Owed(l) - 1 /\ Running(l)' = 1
              => Coalesced!Run(l)
           /\ /\ Running(l) = 1
              /\ Owed(l)' = Owed(l) /\ Running(l)' = 0
              => Coalesced!End(l)
           /\ /\ Owed(l) = 1 /\ Running(l) = 1
              /\ Owed(l)' = 0 /\ Running(l)' = 1
              => Coalesced!Rerun(l)
<1>1. ASSUME Owed(l)' = IF Running(l) = 1 \/ Owed(l) = 0 THEN 1 ELSE 2, Running(l)' = Running(l)
      PROVE  Coalesced!Ask(l)
  BY <1>1 DEF Coalesced!Ask
<1>2. ASSUME Owed(l) > 0, Running(l) = 0, Owed(l)' = Owed(l) - 1, Running(l)' = 1
      PROVE  Coalesced!Run(l)
  BY <1>2 DEF Coalesced!Run
<1>3. ASSUME Running(l) = 1, Owed(l)' = Owed(l), Running(l)' = 0
      PROVE  Coalesced!End(l)
  BY <1>3 DEF Coalesced!End
<1>4. ASSUME Owed(l) = 1, Running(l) = 1, Owed(l)' = 0, Running(l)' = 1
      PROVE  Coalesced!Rerun(l)
  BY <1>4 DEF Coalesced!Rerun
<1> QED
  BY <1>1, <1>2, <1>3, <1>4

------------------------------------------------------------------------------
(* Starting and closing the host: closing forgets, the rest is quiet.       *)
LEMMA LifeCounts ==
    ASSUME HInv, HInv', WorkCounted, WorkCounted', StartBegin \/ CloseBegin \/ LifeStep
    PROVE  [Coalesced!Next]_(Coalesced!vars)
<1> USE DEF HInv
<1>1. CASE CloseBegin
  <2>1. /\ ~started' /\ ~enabled'
        /\ task' = [t \in Slot |-> IF t \in tasks /\ Busy(t) THEN [task[t] EXCEPT !.cancel = TRUE] ELSE task[t]]
    BY <1>1 DEF CloseBegin, enabled
  <2>2. \A r \in Task : LET q == [r EXCEPT !.cancel = TRUE]
                        IN  q \in Task /\ q.kind = r.kind /\ q.who = r.who /\ q.st = r.st
    BY DEF Task
  <2>3. \A t \in Slot : task[t] \in Task =>
            task'[t] \in Task /\ task'[t].kind = task[t].kind /\ task'[t].who = task[t].who /\ task'[t].st = task[t].st
    BY <2>1, <2>2
  <2>4. \A t \in Slot : (task[t] \in Task <=> Busy(t)) /\ (Busy(t)' <=> Busy(t))
    BY <2>1, <2>3, BusyTask, TaskIsNotDone DEF Busy
  <2>5. \A l \in Learner : Calls(l)' <=> Calls(l)
    BY <2>3, <2>4, LoopsStay
  <2>6. \A l \in Learner : Running(l)' = Running(l) /\ Owed(l)' = 0
    BY <2>1, <2>5 DEF WorkCounted, Owed
  <2>7. Coalesced!Forget
    BY <2>6 DEF Coalesced!Forget
  <2> QED
    BY <2>7 DEF Coalesced!Next
<1>2. ASSUME StartBegin \/ LifeStep
      PROVE  UNCHANGED Coalesced!vars
  <2>1. UNCHANGED task
    BY <1>2 DEF StartBegin, LifeStep, StartOk, StartFail, CloseDrained, CloseDone
  <2>2. \A l \in Learner : (Calls(l)' <=> Calls(l)) /\ (Waits(l)' <=> Waits(l))
    BY <2>1 DEF Calls, Waits, Loops, Busy
  <2>3. ~started
    BY <1>2 DEF StartBegin, LifeStep, StartOk, StartFail, CloseDrained, CloseDone, LifeSound, enabled
  <2>4. CASE ~started'
    BY <2>2, <2>3, <2>4, Quiet
  <2>5. CASE StartOk
    <3>1. \A l \in Learner : consolidating[l] = "none" /\ ~Waits(l) /\ ~Calls(l)
      BY <2>3, <2>5 DEF StartOk, FlagsOwned, TasksOwned, Waits, Calls, Loops
    <3>2. \A l \in Learner : consolidating'[l] = "none"
      BY <3>1, <2>5 DEF StartOk
    <3>3. \A l \in Learner : Running(l)' = Running(l) /\ Owed(l)' = 0 /\ Owed(l) = 0
      <4>1. \A l \in Learner : Owed(l)' = 0
        BY <2>2, <3>1, <3>2 DEF Owed, Waits
      <4>2. \A l \in Learner : Owed(l) = 0
        BY <2>3 DEF Owed, WorkCounted
      <4> QED
        BY <2>2, <4>1, <4>2 DEF WorkCounted
    <3> QED
      BY <3>3 DEF Coalesced!vars
  <2>6. started' => StartOk
    BY <1>2, <2>3 DEF StartBegin, LifeStep, StartFail, CloseDrained, CloseDone
  <2> QED
    BY <2>4, <2>5, <2>6
<1> QED
  BY <1>1, <1>2

(* Steps of seeds and writes, and a loop that waits, are quiet.             *)
LEMMA OtherCounts ==
    ASSUME HInv, HInv', WorkCounted, WorkCounted',
           UNCHANGED <<started, consolidating>>,
           \A t \in Slot : Busy(t)' /\ task'[t].kind = "loop" <=> Busy(t) /\ task[t].kind = "loop",
           \A t \in Slot : Busy(t) /\ task[t].kind = "loop" =>
               /\ task'[t].who = task[t].who
               /\ task'[t].st = "calling" <=> task[t].st = "calling"
    PROVE  UNCHANGED Coalesced!vars
<1>1. \A l \in Learner : (Calls(l)' <=> Calls(l)) /\ (Waits(l)' <=> Waits(l))
  BY LoopsStay
<1> QED
  BY <1>1, Quiet

(* consolidate_soon: the first request owes a run, later ones a rerun.      *)
LEMMA RequestCounts ==
    ASSUME HInv, HInv', WorkCounted, WorkCounted', NEW l \in Learner,
           FirstRequest(l) \/ MoreRequests(l)
    PROVE  Coalesced!Ask(l)
<1> USE DEF HInv
<1>1. CASE FirstRequest(l)
  <2>1. /\ started /\ started' /\ consolidating[l] = "none" /\ Spawn("loop", l)
        /\ consolidating' = [consolidating EXCEPT ![l] = "once"]
    BY <1>1 DEF FirstRequest, enabled, hostVars
  <2>2. PICK n \in Slot :
          /\ ~Busy(n) /\ task'[n] = NewTask("loop", l)
          /\ \A t \in Slot : t # n => task'[t] = task[t]
          /\ \A t \in Slot : Busy(t)' <=> Busy(t) \/ t = n
    BY <2>1, SpawnStep
  <2>3. task'[n].kind = "loop" /\ task'[n].who = l /\ task'[n].st = "created"
    BY <2>2, NewTaskType
  <2>4. consolidating'[l] = "once" /\ \A m \in Learner : m # l => consolidating'[m] = consolidating[m]
    BY <2>1 DEF HostTypeOK
  <2>5. /\ \A m \in Learner : m # l => (Calls(m)' <=> Calls(m)) /\ (Waits(m)' <=> Waits(m))
        /\ ~Calls(l) /\ ~Waits(l) /\ ~Calls(l)' /\ Waits(l)'
    BY <2>1, <2>2, <2>3, OneLoopMoves
  <2>6. /\ \A m \in Learner : m # l => Owed(m)' = Owed(m) /\ Running(m)' = Running(m)
        /\ Owed(l) = 0 /\ Owed(l)' = 1 /\ Running(l) = 0 /\ Running(l)' = 0
    BY <2>1, <2>4, <2>5, Recount
  <2> QED
    BY <2>6, AbstractSteps
<1>2. CASE MoreRequests(l)
  <2>1. /\ started /\ started' /\ consolidating[l] # "none" /\ UNCHANGED task
        /\ consolidating' = [consolidating EXCEPT ![l] = "again"]
    BY <1>2 DEF MoreRequests, enabled, hostVars
  <2>2. consolidating'[l] = "again" /\ \A m \in Learner : m # l => consolidating'[m] = consolidating[m]
    BY <2>1 DEF HostTypeOK
  <2>3. \A m \in Learner : (Calls(m)' <=> Calls(m)) /\ (Waits(m)' <=> Waits(m))
    BY <2>1 DEF Calls, Waits, Loops, Busy
  <2>4. Waits(l) <=> ~Calls(l)
    <3>1. Loops(l) # {}
      BY <2>1 DEF FlagsOwned, LifeSound
    <3> QED
      BY <3>1 DEF Waits, Calls, WorkCounted
  <2>5. /\ \A m \in Learner : m # l => Owed(m)' = Owed(m) /\ Running(m)' = Running(m)
        /\ Owed(l) = (IF Waits(l) THEN 1 ELSE 0) + (IF consolidating[l] = "again" THEN 1 ELSE 0)
        /\ Running(l) = IF Calls(l) THEN 1 ELSE 0
        /\ Owed(l)' = (IF Waits(l) THEN 1 ELSE 0) + 1 /\ Running(l)' = Running(l)
    BY <2>1, <2>2, <2>3, Recount
  <2>6. Owed(l)' = IF Running(l) = 1 \/ Owed(l) = 0 THEN 1 ELSE 2
    BY <2>4, <2>5
  <2> QED
    BY <2>5, <2>6, AbstractSteps
<1> QED
  BY <1>1, <1>2

(* A run begins: one owed run less, and it runs.                            *)
LEMMA RunCounts ==
    ASSUME HInv, HInv', WorkCounted, WorkCounted', NEW t \in Slot,
           Busy(t), task[t].kind = "loop", task[t].st # "calling", ~task[t].cancel, RunBegins(t),
           UNCHANGED hostVars
    PROVE  Coalesced!Run(task[t].who)
<1> DEFINE q == [task[t] EXCEPT !.st = "calling", !.on = NoTask]
<1>1. PICK l \in Learner : l = task[t].who
  BY DEF HInv, TasksTyped
<1>2. task[t] \in Task
  BY BusyTask DEF HInv
<1>3. q \in Task /\ q.kind = task[t].kind /\ q.who = task[t].who /\ q.st = "calling"
  BY <1>2 DEF Task
<1>4. task' = [task EXCEPT ![t] = q] /\ UNCHANGED consolidating /\ UNCHANGED started
  BY <1>2 DEF RunBegins, HInv, HostTypeOK, hostVars
<1> HIDE DEF q
<1>5. /\ task'[t] = q /\ \A u \in Slot : u # t => task'[u] = task[u]
      /\ Busy(t)'
  BY <1>3, <1>4, TaskIsNotDone DEF HInv, HostTypeOK, Busy
<1>6. started
  BY DEF HInv, TasksOwned
<1>7. /\ \A m \in Learner : m # l => (Calls(m)' <=> Calls(m)) /\ (Waits(m)' <=> Waits(m))
      /\ ~Calls(l) /\ Waits(l) /\ Calls(l)' /\ ~Waits(l)'
  BY <1>1, <1>3, <1>5, OneLoopMoves
<1>8. /\ \A m \in Learner : m # l => Owed(m)' = Owed(m) /\ Running(m)' = Running(m)
      /\ Owed(l) = 1 + (IF consolidating[l] = "again" THEN 1 ELSE 0) /\ Running(l) = 0
      /\ Owed(l)' = 0 + (IF consolidating[l] = "again" THEN 1 ELSE 0) /\ Running(l)' = 1
  BY <1>4, <1>6, <1>7, Recount
<1>9. Owed(l) > 0 /\ Owed(l)' = Owed(l) - 1
  BY <1>8
<1> QED
  BY <1>1, <1>8, <1>9, AbstractSteps

(* A loop ends: with its run, or, cancelled by aclose, without one.         *)
LEMMA LoopEndCounts ==
    ASSUME HInv, HInv', WorkCounted, WorkCounted', NEW t \in Slot,
           Busy(t), task[t].kind = "loop", task' = Ended(t), UNCHANGED hostVars,
           \/ /\ task[t].cancel
              /\ UNCHANGED consolidating \/ LoopEnds(t)
           \/ /\ task[t].st = "calling" /\ LoopEnds(t)
              /\ consolidating[task[t].who] # "again"
    PROVE  [Coalesced!Next]_(Coalesced!vars)
<1>1. PICK l \in Learner : l = task[t].who
  BY DEF HInv, TasksTyped
<1>2. /\ ~Busy(t)' /\ UNCHANGED started
      /\ \A u \in Slot : u # t => task'[u] = task[u]
  BY DEF Ended, HInv, HostTypeOK, Busy, hostVars
<1>3. /\ \A m \in Learner : m # l => (Calls(m)' <=> Calls(m)) /\ (Waits(m)' <=> Waits(m))
      /\ Calls(l) <=> task[t].st = "calling"
      /\ Waits(l) <=> task[t].st # "calling"
      /\ ~Calls(l)' /\ ~Waits(l)'
  BY <1>1, <1>2, OneLoopMoves
<1>4. \A m \in Learner : Running(m)' = IF m = l THEN 0 ELSE Running(m)
  BY <1>3 DEF WorkCounted
<1>5. \A m \in Learner : m # l => Owed(m)' = Owed(m)
  <2>1. \A m \in Learner : m # l => consolidating'[m] = consolidating[m]
    BY <1>1 DEF LoopEnds, HInv, HostTypeOK
  <2>2. \A m \in Learner : Owed(m) = IF ~started THEN 0
            ELSE (IF Waits(m) THEN 1 ELSE 0) + (IF consolidating[m] = "again" THEN 1 ELSE 0)
    BY DEF Owed, Waits, WorkCounted
  <2>3. \A m \in Learner : Owed(m)' = IF ~started' THEN 0
            ELSE (IF Waits(m)' THEN 1 ELSE 0) + (IF consolidating'[m] = "again" THEN 1 ELSE 0)
    BY DEF Owed, Waits, WorkCounted
  <2> QED
    BY <1>2, <1>3, <2>1, <2>2, <2>3
<1>6. Owed(l) = 0 /\ Owed(l)' = 0
  <2>1. CASE task[t].cancel
    <3>1. ~started /\ ~started'
      BY <1>2, <2>1 DEF HInv, TasksOwned, LifeSound
    <3> QED
      BY <3>1 DEF WorkCounted, Owed
  <2>2. CASE ~task[t].cancel
    <3>1. started /\ started'
      BY <1>2, <2>2 DEF HInv, TasksOwned
    <3>2. consolidating'[l] # "again" /\ consolidating[l] # "again" /\ ~Waits(l) /\ ~Waits(l)'
      BY <1>1, <1>3, <2>2 DEF LoopEnds, HInv, HostTypeOK
    <3>3. \A m \in Learner : m # l => consolidating'[m] = consolidating[m]
      BY <1>1, <2>2 DEF LoopEnds, HInv, HostTypeOK
    <3> QED
      BY <1>3, <3>1, <3>2, <3>3, Recount
  <2> QED
    BY <2>1, <2>2
<1>7. CASE task[t].st = "calling"
  <2>1. Running(l) = 1
    BY <1>3, <1>7 DEF WorkCounted
  <2>2. Coalesced!End(l)
    BY <1>4, <1>5, <1>6, <2>1, AbstractSteps
  <2> QED
    BY <2>2 DEF Coalesced!Next
<1>8. CASE task[t].st # "calling"
  <2>1. Running(l) = 0
    BY <1>3, <1>8 DEF WorkCounted
  <2> QED
    BY <1>4, <1>5, <1>6, <2>1 DEF Coalesced!vars
<1> QED
  BY <1>7, <1>8

(* A loop's step is one of the coalescer's, for its learner alone.          *)
LEMMA LoopCounts ==
    ASSUME HInv, HInv', WorkCounted, WorkCounted', NEW t \in Slot,
           LoopStarts(t) \/ SeedAwaited(t) \/ RunEnds(t)
    PROVE  [Coalesced!Next]_(Coalesced!vars)
<1>1. Busy(t) /\ task[t].kind = "loop" /\ UNCHANGED hostVars /\ task[t].who \in Learner
  BY DEF LoopStarts, SeedAwaited, RunEnds, HInv, TasksTyped
<1>2. CASE RunBegins(t) /\ (LoopStarts(t) \/ SeedAwaited(t)) /\ ~task[t].cancel
  <2>1. task[t].st # "calling"
    BY <1>2 DEF LoopStarts, SeedAwaited
  <2> QED
    BY <1>1, <1>2, <2>1, RunCounts DEF Coalesced!Next
<1>3. CASE /\ LoopEnds(t)
           /\ task[t].cancel \/ (RunEnds(t) /\ consolidating[task[t].who] # "again")
  <2>1. task[t].cancel \/ (task[t].st = "calling" /\ consolidating[task[t].who] # "again")
    BY <1>3 DEF RunEnds
  <2>2. task' = Ended(t)
    BY <1>3 DEF LoopEnds
  <2> QED
    BY <1>1, <1>3, <2>1, <2>2, LoopEndCounts
<1>4. CASE /\ LoopStarts(t) /\ SeedInFlight(task[t].who) /\ UNCHANGED consolidating
           /\ task' = [task EXCEPT ![t].st = "waiting", ![t].on = seeding[task[t].who]]
  <2> DEFINE q == [task[t] EXCEPT !.st = "waiting", !.on = seeding[task[t].who]]
  <2>1. task[t] \in Task /\ seeding[task[t].who] \in Slot /\ task[t].st = "created"
    BY <1>1, <1>4, BusyTask DEF HInv, HostTypeOK, SeedInFlight, LoopStarts
  <2>2. q \in Task /\ q.kind = "loop" /\ q.who = task[t].who /\ q.st = "waiting"
    BY <1>1, <2>1 DEF Task
  <2>3. task' = [task EXCEPT ![t] = q]
    BY <1>4 DEF HInv, HostTypeOK
  <2> HIDE DEF q
  <2>4. task'[t] = q /\ \A u \in Slot : u # t => task'[u] = task[u]
    BY <2>3 DEF HInv, HostTypeOK
  <2>5. \A u \in Slot : Busy(u)' <=> Busy(u)
    BY <1>1, <2>2, <2>4, TaskIsNotDone DEF Busy
  <2>6. UNCHANGED started
    BY <1>1 DEF hostVars
  <2>7. UNCHANGED Coalesced!vars
    BY <1>1, <1>4, <2>1, <2>2, <2>4, <2>5, <2>6, OtherCounts
  <2> QED
    BY <2>7
<1>5. CASE /\ RunEnds(t) /\ ~task[t].cancel /\ consolidating[task[t].who] = "again"
           /\ UNCHANGED task /\ task[t].st = "calling"
           /\ consolidating' = [consolidating EXCEPT ![task[t].who] = "once"]
  <2>1. PICK l \in Learner : l = task[t].who
    BY <1>1
  <2>2. started /\ started'
    BY <1>1, <1>5 DEF HInv, TasksOwned, hostVars
  <2>3. \A m \in Learner : (Calls(m)' <=> Calls(m)) /\ (Waits(m)' <=> Waits(m))
    BY <1>5 DEF Calls, Waits, Loops, Busy
  <2>4. consolidating'[l] = "once" /\ \A m \in Learner : m # l => consolidating'[m] = consolidating[m]
    BY <1>5, <2>1 DEF HInv, HostTypeOK
  <2>5. Calls(l) /\ ~Waits(l)
    <3>1. Calls(l)
      BY <1>1, <1>5, <2>1 DEF Calls, Loops
    <3> QED
      BY <3>1 DEF WorkCounted
  <2>6. /\ \A m \in Learner : m # l => Owed(m)' = Owed(m) /\ Running(m)' = Running(m)
        /\ Owed(l) = 0 + 1 /\ Running(l) = 1 /\ Owed(l)' = 0 + 0 /\ Running(l)' = 1
    BY <1>5, <2>1, <2>2, <2>3, <2>4, <2>5, Recount
  <2> QED
    BY <2>6, AbstractSteps DEF Coalesced!Next
<1> QED
  BY <1>1, <1>2, <1>3, <1>4, <1>5 DEF LoopStarts, SeedAwaited, RunEnds

(* A task that is no loop moves, or a loop that never ran goes.             *)
LEMMA TaskCounts ==
    ASSUME HInv, HInv', WorkCounted, WorkCounted', NEW t \in Slot, TaskStep(t)
    PROVE  [Coalesced!Next]_(Coalesced!vars)
<1>1. CASE LoopStarts(t) \/ SeedAwaited(t) \/ RunEnds(t)
  BY <1>1, LoopCounts
<1>2. CASE Reap(t)
  <2>1. UNCHANGED <<task, started, consolidating>>
    BY <1>2 DEF Reap, hostVars
  <2> QED
    BY <2>1, OtherCounts DEF Busy
<1>3. CASE NeverRuns(t) \/ SeedEnds(t) \/ IngestEnds(t)
  <2>1. /\ Busy(t) /\ task' = Ended(t) /\ UNCHANGED <<hostVars, consolidating>>
        /\ task[t].kind = "loop" => task[t].cancel
    BY <1>3 DEF NeverRuns, SeedEnds, IngestEnds, Answer
  <2>2. CASE task[t].kind = "loop"
    BY <2>1, <2>2, LoopEndCounts
  <2>3. CASE task[t].kind # "loop"
    <3>1. ~Busy(t)' /\ \A u \in Slot : u # t => task'[u] = task[u] /\ (Busy(u)' <=> Busy(u))
      BY <2>1 DEF Ended, HInv, HostTypeOK, Busy
    <3> QED
      BY <2>1, <2>3, <3>1, OtherCounts DEF hostVars
  <2> QED
    BY <2>2, <2>3
<1>4. CASE CallBegins(t)
  <2>1. /\ Busy(t) /\ task[t].kind # "loop" /\ UNCHANGED <<started, consolidating>>
        /\ task' = [task EXCEPT ![t] = [task[t] EXCEPT !.st = "calling"]]
    BY <1>4 DEF CallBegins, hostVars, HInv, HostTypeOK
  <2>2. /\ task'[t].kind = task[t].kind
        /\ \A u \in Slot : u # t => task'[u] = task[u] /\ (Busy(u)' <=> Busy(u))
    BY <2>1, BusyTask DEF HInv, HostTypeOK, Busy, Task
  <2> QED
    BY <2>1, <2>2, OtherCounts
<1> QED
  BY <1>1, <1>2, <1>3, <1>4 DEF TaskStep

(* Every step of the host is one of the coalescer's or none.                *)
LEMMA CoalescedStep == HInv /\ HInv' /\ WorkCounted /\ WorkCounted' /\ [Next]_vars
                          => [Coalesced!Next]_(Coalesced!vars)
<1> SUFFICES ASSUME HInv, HInv', WorkCounted, WorkCounted', [Next]_vars
             PROVE  [Coalesced!Next]_(Coalesced!vars)
  OBVIOUS
<1>1. CASE StartBegin \/ CloseBegin \/ LifeStep
  BY <1>1, LifeCounts
<1>2. ASSUME NEW l \in Learner, FirstRequest(l) \/ MoreRequests(l)
      PROVE  [Coalesced!Next]_(Coalesced!vars)
  BY <1>2, RequestCounts DEF Coalesced!Next
<1>3. ASSUME NEW l \in Learner, SeedSoon(l)
      PROVE  [Coalesced!Next]_(Coalesced!vars)
  <2>1. Spawn("seed", l) /\ UNCHANGED <<started, consolidating>>
    BY <1>3 DEF SeedSoon, hostVars
  <2>2. PICK n \in Slot :
          /\ ~Busy(n) /\ task'[n] = NewTask("seed", l)
          /\ \A t \in Slot : t # n => task'[t] = task[t]
          /\ \A t \in Slot : Busy(t)' <=> Busy(t) \/ t = n
    BY <2>1, SpawnStep
  <2> QED
    BY <2>1, <2>2, NewTaskType, OtherCounts
<1>4. ASSUME NEW c \in Turn, LogBegin(c)
      PROVE  [Coalesced!Next]_(Coalesced!vars)
  <2>1. Spawn("ingest", c) /\ UNCHANGED <<started, consolidating>>
    BY <1>4 DEF LogBegin, hostVars
  <2>2. PICK n \in Slot :
          /\ ~Busy(n) /\ task'[n] = NewTask("ingest", c)
          /\ \A t \in Slot : t # n => task'[t] = task[t]
          /\ \A t \in Slot : Busy(t)' <=> Busy(t) \/ t = n
    BY <2>1, SpawnStep
  <2> QED
    BY <2>1, <2>2, NewTaskType, OtherCounts
<1>5. ASSUME NEW c \in Turn, LogCancelled(c)
      PROVE  [Coalesced!Next]_(Coalesced!vars)
  <2>1. UNCHANGED <<task, started, consolidating>>
    BY <1>5 DEF LogCancelled, hostVars
  <2> QED
    BY <2>1, OtherCounts DEF Busy
<1>6. ASSUME NEW t \in Slot, TaskStep(t)
      PROVE  [Coalesced!Next]_(Coalesced!vars)
  BY <1>6, TaskCounts
<1>7. CASE UNCHANGED vars
  <2>1. UNCHANGED <<task, started, consolidating>>
    BY <1>7 DEF vars, hostVars
  <2> QED
    BY <2>1, OtherCounts DEF Busy
<1> QED
  BY <1>1, <1>2, <1>3, <1>4, <1>5, <1>6, <1>7 DEF Next

(* A new host owes no run and runs none.                                    *)
LEMMA CoalescedInit == Init => Coalesced!Init
<1> SUFFICES ASSUME Init PROVE Coalesced!Init
  OBVIOUS
<1>1. \A l \in Learner : {t \in Loops(l) : task[t].st = "calling"} = {}
  BY DEF Init, Loops, Busy
<1>2. \A l \in Learner : Owed(l) = 0 /\ Running(l) = 0
  BY <1>1, FS_EmptySet DEF Init, Owed, Running, enabled
<1> QED
  BY <1>2 DEF Coalesced!Init

(* consolidate_soon: the loop, its flags and aclose keep the promise of     *)
(* module Coalescer: runs of one learner never overlap, a burst of requests *)
(* costs at most two, and no run begins that nobody asked for.              *)
THEOREM HostCoalesces == Spec => CoalescedSpec
<1>1. HInv => WorkCounted
  BY Counted
<1> QED
  BY <1>1, CoalescedInit, CoalescedStep, HostInvariant, PTL DEF Spec, CoalescedSpec, Coalesced!Spec
==============================================================================
