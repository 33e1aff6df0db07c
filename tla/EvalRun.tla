-------------------------------- MODULE EvalRun --------------------------------
(***************************************************************************)
(* execute_run: one run of a scenario, from await to await.  A cancel of   *)
(* its task arrives at the next of them.  A learning session has one       *)
(* exchange; a metered call costs one unit.                                *)
(***************************************************************************)
EXTENDS Naturals, Sequences, FiniteSets, SequencesExt

CONSTANTS RunId,
          Scenarios,   \* [frozen: BOOLEAN, sessions: Nat, checks: Seq(names)]; a name
                       \* may be given twice
          Registered,  \* names of checks
          Drain,       \* the check named "integrity"
          Budgets      \* max_cost_usd

ASSUME EvalRunConstants ==
    /\ Budgets \subseteq Nat
    /\ \A s \in Scenarios : s.sessions \in Nat \ {0} /\ s.checks \in Seq(Range(s.checks))

VARIABLES scenario, budget,
          run          \* the runs

evalVars == <<scenario, budget, run>>

(* file: the status in run.json.  log: events.jsonl, "other" unless it is a *)
(* status.  results: of the checks so far.  pending, rows: the learner has  *)
(* events not consolidated, rows at all.  done: sessions for which          *)
(* consolidate() returned, its events stored or still pending.              *)
(* overAt: history, the session in which the budget was passed.  cut:       *)
(* history, what ends every run did not happen.                             *)
NotRun == [stage |-> "none", session |-> 1, file |-> "none", log |-> <<>>,
           status |-> "running", results |-> <<>>, cost |-> 0, cancel |-> FALSE,
           pending |-> FALSE, rows |-> FALSE, deleted |-> FALSE,
           done |-> 0, overAt |-> 0, cut |-> FALSE]

EvalRunInit ==
    /\ scenario \in Scenarios /\ budget \in Budgets
    /\ run = [r \in RunId |-> NotRun]

Terminal == {"passed", "failed", "error", "over_budget", "cancelled"}

Working == {"student", "tutor", "replay", "extract", "passes", "check"}

Alive(r) == run[r].stage \in Working \cup {"created", "cleaning"}

Note(x, event) == [x EXCEPT !.log = Append(@, event)]

SetRun(r, x) == run' = [run EXCEPT ![r] = x] /\ UNCHANGED <<scenario, budget>>

(* The task goes on from the await it is at.                                *)
Resumes(r, stage) == run[r].stage = stage /\ ~run[r].cancel

(* _tally; the cost counts no further than past the budget.                 *)
Spend(x, calls) ==
    LET cost == IF x.cost + calls > budget THEN budget + 1 ELSE x.cost + calls
    IN  [x EXCEPT !.cost = cost,
                  !.overAt = IF @ = 0 /\ cost > budget THEN x.session ELSE @]

Ending(x, status) == [x EXCEPT !.stage = "cleaning", !.status = status]

(* Metered calls whose BudgetExceeded nobody catches on its way, and x if   *)
(* it is not raised.                                                        *)
Metered(r, calls, x) ==
    LET spent == Spend(run[r], calls)
    IN  IF spent.cost > budget
        THEN SetRun(r, Note(Ending(spent, "over_budget"), "other"))
        ELSE SetRun(r, Spend(x, calls))

NextSession(x) ==
    Note([x EXCEPT !.stage = IF scenario.frozen THEN "replay" ELSE "student"], "other")

(* The first part up to the first await; an unknown check ends the run      *)
(* before any call.                                                         *)
Begin(r) ==
    /\ Resumes(r, "created")
    /\ LET begun == Note([run[r] EXCEPT !.file = "running"], "running")
       IN  SetRun(r, IF Range(scenario.checks) \subseteq Registered
                     THEN NextSession(begun) ELSE Note(Ending(begun, "error"), "other"))

Student(r) ==
    /\ Resumes(r, "student")
    /\ Metered(r, 1, Note([run[r] EXCEPT !.stage = "tutor"], "other"))

Ingested(x) == Note([x EXCEPT !.stage = "extract", !.pending = TRUE, !.rows = TRUE], "other")

(* recall, the tutor's reply, ingest                                        *)
Tutor(r) == Resumes(r, "tutor") /\ Metered(r, 1, Ingested(run[r]))

(* A frozen transcript is replayed without a call.                          *)
Replay(r) == Resumes(r, "replay") /\ SetRun(r, Ingested(run[r]))

Verdict(x) ==
    Ending(x, IF \A i \in DOMAIN x.results : x.results[i] THEN "passed" ELSE "failed")

(* After a session: the next one, or the checks.                            *)
Onward(x) ==
    LET snapped == Note([x EXCEPT !.done = @ + 1], "other")
    IN  IF x.session < scenario.sessions
        THEN NextSession([snapped EXCEPT !.session = @ + 1])
        ELSE IF scenario.checks # <<>> THEN [snapped EXCEPT !.stage = "check"]
        ELSE Verdict(snapped)

\* Slip: the extractor's call swallows BudgetExceeded as the others do.
Extract_Swallows(r) ==
    /\ Resumes(r, "extract")
    /\ SetRun(r, Spend([run[r] EXCEPT !.stage = "passes"], 1))

(* consolidate up to the extractor's answer, which may take two calls; when *)
(* the second fails too the events stay pending, which is no error here.    *)
Extract(r) ==
    /\ Resumes(r, "extract")
    /\ \/ \E calls \in 1..2 : Metered(r, calls, [run[r] EXCEPT !.stage = "passes"])
       \/ Metered(r, 2, Onward(run[r]))

(* The evidence, edge and reflector calls swallow BudgetExceeded; then the  *)
(* plan is applied.                                                         *)
Passes(r) ==
    /\ Resumes(r, "passes")
    /\ \E calls \in 0..2 :
         SetRun(r, Onward(Spend([run[r] EXCEPT !.pending = FALSE], calls)))

(* run_check: what it raises, the budget included, fails the check.  The    *)
(* integrity check fails on pending events before it consolidates them.     *)
RunCheck(r) ==
    /\ Resumes(r, "check")
    /\ \E passed \in BOOLEAN, calls \in 0..1 :
         LET name == scenario.checks[Len(run[r].results) + 1]
             ok == passed /\ (name = Drain => ~run[r].pending)
             x == Note(Spend([run[r] EXCEPT !.results = Append(@, ok)], calls), "other")
         IN  SetRun(r, IF Len(x.results) = Len(scenario.checks) THEN Verdict(x) ELSE x)

(* Any other exception: storage, network, the run's directory.              *)
Fail(r) ==
    /\ \E stage \in Working : Resumes(r, stage)
    /\ SetRun(r, Note(Ending(run[r], "error"), "other"))

(* CancelledError: a task that has not begun ends without a trace; one that *)
(* is cleaning up leaves the finally block there.                           *)
Cancelled(r) ==
    /\ Alive(r) /\ run[r].cancel
    /\ LET x == [run[r] EXCEPT !.cancel = FALSE]
       IN  CASE x.stage \in Working -> SetRun(r, Ending(x, "cancelled"))
             [] x.stage = "created" -> SetRun(r, [x EXCEPT !.stage = "ended", !.cut = TRUE])
             [] x.stage = "cleaning" -> \E rows \in {x.rows, FALSE} :
                  SetRun(r, [x EXCEPT !.stage = "ended", !.cut = TRUE, !.rows = rows])

Finished(x) == Note([x EXCEPT !.stage = "ended", !.file = x.status], x.status)

\* Slip: the flag is set before the learner is deleted.
CleanUp_FlagFirst(r) ==
    /\ Resumes(r, "cleaning")
    /\ \E gone \in BOOLEAN :
         SetRun(r, Finished([run[r] EXCEPT !.deleted = TRUE, !.rows = @ /\ ~gone]))

(* finally: delete_learner may fail; then run.json and the last event.      *)
CleanUp(r) ==
    /\ Resumes(r, "cleaning")
    /\ \E gone \in BOOLEAN :
         SetRun(r, Finished([run[r] EXCEPT !.deleted = gone, !.rows = @ /\ ~gone]))

(* run.json cannot be written: the exception leaves execute_run.            *)
Raise(r) ==
    /\ Resumes(r, "created") \/ Resumes(r, "cleaning")
    /\ SetRun(r, [run[r] EXCEPT !.stage = "ended", !.status = "crashed", !.cut = TRUE])

Step(r) ==
    \/ Begin(r) \/ Student(r) \/ Tutor(r) \/ Replay(r) \/ Extract(r) \/ Passes(r)
    \/ RunCheck(r) \/ Fail(r) \/ Cancelled(r) \/ CleanUp(r) \/ Raise(r)

------------------------------------------------------------------------------
(* What a run leaves behind is true: unless its last part was cut short,    *)
(* run.json has its verdict, the log closes with it and has no other; it    *)
(* passed only if consolidate() returned for every session, were its events *)
(* stored or left pending, and every check asked for ran and passed, and    *)
(* with the integrity check, if no event was left over; a learner reported  *)
(* as deleted has no rows (execute_run).                                    *)
ReportHonest ==
    \A r \in RunId :
        LET x == run[r]
            statuses == {i \in DOMAIN x.log : x.log[i] \in Terminal}
        IN  /\ x.stage = "ended" /\ ~x.cut =>
                 /\ x.file = x.status /\ x.file \in Terminal
                 /\ statuses = {Len(x.log)} /\ Last(x.log) = x.status
                 /\ x.deleted => ~x.rows
            /\ x.file \in {"passed", "failed"} =>
                 /\ x.done = scenario.sessions /\ Len(x.results) = Len(scenario.checks)
                 /\ x.file = "passed" => \A i \in DOMAIN x.results : x.results[i]
                 /\ x.file = "passed" /\ Drain \in Range(scenario.checks) => ~x.pending
            /\ x.file = "running" => statuses = {}

(* The cap stops a run: after the session in which the cost passed it, no   *)
(* further session is consolidated.  Within that session and in the checks  *)
(* the passes that swallow the exception go on spending (MeteredLLM._tally, *)
(* Keeper._extract_evidence, run_check).                                    *)
CapStopsTheRun ==
    \A r \in RunId : run[r].overAt # 0 => run[r].done <= run[r].overAt
===============================================================================
