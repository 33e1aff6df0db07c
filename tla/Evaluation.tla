------------------------------ MODULE Evaluation ------------------------------
(***************************************************************************)
(* Who drives runs: the application, which launches one at a time, cancels *)
(* and streams its events; or the command line, which repeats a scenario   *)
(* and gates on a majority.                                                *)
(***************************************************************************)
EXTENDS EvalRun

CONSTANTS Concurrency, Sample,  \* --concurrency, and the runs of --repeat
          NoRun

ASSUME RunnerConstants == Concurrency \in Nat /\ Sample \in Nat

VARIABLES driver, viewer,
          outcome,    \* execute_many: what it has of each run
          gated       \* the exit code of --repeat: "none", "pass" or "fail"

runnerVars == <<evalVars, driver, viewer, outcome, gated>>

NoViewer == [run |-> NoRun, cursor |-> 0]

Outcome(status, results) == [status |-> status, results |-> results]

EInit ==
    /\ driver \in {"server", "batch"}
    /\ EvalRunInit
    /\ viewer = NoViewer
    /\ outcome = [i \in 1..Sample |-> Outcome("waiting", <<>>)] /\ gated = "none"

Serving(A) == driver = "server" /\ A /\ UNCHANGED <<driver, outcome, gated>>

(* The task of a run goes on.                                               *)
Runs == Serving(\E r \in RunId : Step(r)) /\ UNCHANGED viewer

(* POST /eval/runs: 409 while a task is alive; the task has not begun.      *)
Launch ==
    /\ \A r \in RunId : ~Alive(r)
    /\ Serving(\E r \in RunId : run[r].stage = "none"
                    /\ SetRun(r, [run[r] EXCEPT !.stage = "created"]))
    /\ UNCHANGED viewer

(* POST /eval/runs/{name}/cancel, at any time and more than once.           *)
CancelRun ==
    /\ Serving(\E r \in RunId : Alive(r) /\ SetRun(r, [run[r] EXCEPT !.cancel = TRUE]))
    /\ UNCHANGED viewer

(* The process dies with its tasks and connections; the next one has the    *)
(* files.                                                                   *)
Crash ==
    /\ \E r \in RunId : Alive(r)
    /\ Serving(run' = [r \in RunId |-> IF Alive(r)
                 THEN [run[r] EXCEPT !.stage = "ended", !.cut = TRUE, !.cancel = FALSE]
                 ELSE run[r]])
    /\ viewer' = NoViewer
    /\ UNCHANGED <<scenario, budget>>

(* GET /eval/runs/{name}/events: 404 without a run.json.                    *)
Connect ==
    /\ viewer = NoViewer
    /\ Serving(\E r \in RunId : run[r].file # "none" /\ viewer' = [NoViewer EXCEPT !.run = r])
    /\ UNCHANGED evalVars

Disconnect ==
    /\ viewer # NoViewer /\ Serving(viewer' = NoViewer)
    /\ UNCHANGED evalVars

Batch == SubSeq(run[viewer.run].log, viewer.cursor + 1, Len(run[viewer.run].log))

\* Slip: the stream ends on a turn that finds the terminal status alone.
Poll_StatusAlone ==
    /\ viewer # NoViewer /\ Batch # <<>>
    /\ Serving(viewer' = IF Last(Batch) \in Terminal /\ ~Alive(viewer.run) /\ Len(Batch) = 1
                         THEN NoViewer
                         ELSE [viewer EXCEPT !.cursor = @ + Len(Batch)])
    /\ UNCHANGED evalVars

(* A turn of the stream's loop that finds lines.                            *)
Poll ==
    /\ viewer # NoViewer /\ Batch # <<>>
    /\ Serving(viewer' = IF Last(Batch) \in Terminal /\ ~Alive(viewer.run) THEN NoViewer
                         ELSE [viewer EXCEPT !.cursor = @ + Len(Batch)])
    /\ UNCHANGED evalVars

------------------------------------------------------------------------------
Repeating(A) == driver = "batch" /\ A /\ UNCHANGED <<evalVars, driver, viewer>>

SetOutcome(i, o) == outcome' = [outcome EXCEPT ![i] = o] /\ UNCHANGED gated

In(status) == {i \in 1..Sample : outcome[i].status = status}

(* execute_many: the semaphore admits in order.                             *)
Enter ==
    /\ Cardinality(In("running")) < Concurrency
    /\ \E i \in In("waiting") :
         /\ \A j \in In("waiting") : i <= j
         /\ Repeating(SetOutcome(i, Outcome("running", <<>>)))

(* execute_run returns: with the results of all checks or with none.        *)
Return ==
    \E i \in In("running") :
        \/ \E results \in {f \in [DOMAIN scenario.checks -> BOOLEAN] :
                              Range(scenario.checks) \subseteq Registered} :
              LET passed == \A k \in DOMAIN results : results[k]
              IN  Repeating(SetOutcome(i, Outcome(IF passed THEN "passed" ELSE "failed", results)))
        \/ \E status \in {"error", "over_budget"} : Repeating(SetOutcome(i, Outcome(status, <<>>)))

(* It raises, or its directory cannot be made.                              *)
Lose == \E i \in In("running") : Repeating(SetOutcome(i, Outcome("crashed", <<>>)))

(* scored: runs that produced verdicts.                                     *)
Scored == {i \in 1..Sample : outcome[i].results # <<>>}

(* The places of a check in the list asked for: nothing keeps a name from   *)
(* being in it twice.                                                       *)
Times(name) == {k \in DOMAIN scenario.checks : scenario.checks[k] = name}

(* passes: counted by name over the results of all runs.                    *)
Passing(name) == Cardinality({v \in Scored \X Times(name) : outcome[v[1]].results[v[2]]})

\* Slip: runs that were lost are no part of the sample.
GatePassed_Survivors(name) == Passing(name) * 2 > Cardinality(Scored)

(* gate_passed: against the number of runs asked for.                       *)
GatePassed(name) == Passing(name) * 2 > Sample

(* gather has all results; aggregate, gate and the exit code.               *)
Gate ==
    /\ gated = "none" /\ In("waiting") \cup In("running") = {}
    /\ Repeating(gated' = IF Scored # {} /\ \A name \in Range(scenario.checks) : GatePassed(name)
                          THEN "pass" ELSE "fail")
    /\ UNCHANGED outcome

ENext ==
    \/ Runs \/ Launch \/ CancelRun \/ Crash \/ Connect \/ Disconnect \/ Poll
    \/ Enter \/ Return \/ Lose \/ Gate

(* Calls return or fail, the loop polls as long as the client is there.     *)
ESpec == EInit /\ [][ENext]_runnerVars /\ WF_runnerVars(Runs) /\ WF_runnerVars(Poll)

------------------------------------------------------------------------------
(* Runs in which a check passed: they have a verdict and, of the places the *)
(* check has in the list, one at least that came out well.                  *)
RunsPassing(name) ==
    {i \in 1..Sample : outcome[i].status \in {"passed", "failed"}
                       /\ \E k \in Times(name) : outcome[i].results[k]}

(* The gate counts against the runs asked for, those that raised, errored   *)
(* or produced no verdict included: it passes only if some checks were      *)
(* asked for and each passed in more than half of the runs (aggregate,      *)
(* gate).  That is the code's promise for lists that name a check once.     *)
(* Named m times, it counts m times per run, and only more than half of an  *)
(* m-th of the runs need to have passed it.                                 *)
GateNeedsMajority ==
    gated = "pass" =>
        /\ scenario.checks # <<>>
        /\ \A name \in Range(scenario.checks) :
             2 * Cardinality(Times(name)) * Cardinality(RunsPassing(name)) > Sample

(* Who watches a run sees it end: the stream comes to its last event and    *)
(* closes, unless the run was cut and its log has none (eval_run_events).   *)
StreamEnds ==
    \A r \in RunId : viewer.run = r ~> viewer.run # r \/ run[r].cut
===============================================================================
