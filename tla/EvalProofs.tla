------------------------------ MODULE EvalProofs ------------------------------
(***************************************************************************)
(* What a run reports is true, its budget stops it, and the gate needs a   *)
(* majority, for any scenarios, budgets, checks and number of runs.        *)
(***************************************************************************)
EXTENDS Evaluation, FiniteSetTheorems, TLAPS

(* Lines of a log that are no status a run ends with.                       *)
Quiet == {"running", "other"}

Run == [stage: Working \cup {"none", "created", "cleaning", "ended"}, session: Nat \ {0},
        file: Terminal \cup {"none", "running"}, log: Seq(Terminal \cup Quiet),
        status: Terminal \cup {"running", "crashed"}, results: Seq(BOOLEAN), cost: Nat,
        cancel: BOOLEAN, pending: BOOLEAN, rows: BOOLEAN, deleted: BOOLEAN,
        done: Nat, overAt: Nat, cut: BOOLEAN]

InSession == {"student", "tutor", "replay", "extract", "passes"}

(* How far a run is: in its next session, in the checks, or at no session.  *)
(* The passes begin within the budget.                                      *)
Progress(x, sc) ==
    /\ x.stage \in {"none", "created"} =>
         x.done = 0 /\ x.session = 1 /\ x.results = <<>> /\ x.cost = 0 /\ x.overAt = 0
    /\ x.stage \in InSession =>
         x.done + 1 = x.session /\ x.session <= sc.sessions /\ x.results = <<>>
    /\ x.stage = "passes" => x.overAt = 0
    /\ x.stage = "check" =>
         /\ x.done = sc.sessions /\ x.session = sc.sessions
         /\ Len(x.results) < Len(sc.checks)
         /\ \A i \in 1..Len(x.results) : x.results[i] /\ sc.checks[i] = Drain => ~x.pending

(* The budget is passed in a session, and only that one ends afterwards.    *)
Metering(x, b) == (x.overAt # 0 <=> x.cost > b) /\ (x.overAt # 0 => x.done <= x.overAt)

(* What it takes to end with status s.                                      *)
Earned(x, s, sc) ==
    s \in {"passed", "failed"} =>
        /\ x.done = sc.sessions /\ Len(x.results) = Len(sc.checks)
        /\ s = "passed" => \A i \in 1..Len(x.results) : x.results[i]
        /\ s = "passed" /\ Drain \in Range(sc.checks) => ~x.pending

(* The file and the log agree: both have the verdict, or neither.           *)
Reported(x, sc) ==
    \/ /\ x.stage # "ended" \/ x.cut
       /\ x.file \in {"none", "running"} /\ x.log \in Seq(Quiet)
       /\ x.stage = "cleaning" => x.status \in Terminal /\ Earned(x, x.status, sc)
    \/ /\ x.stage = "ended" /\ x.file = x.status /\ x.file \in Terminal
       /\ Earned(x, x.file, sc)
       /\ x.deleted => ~x.rows
       /\ \E l \in Seq(Quiet) : x.log = Append(l, x.file)

Accounted(x, sc, b) == x \in Run /\ Metering(x, b) /\ Reported(x, sc)

Sound(x, sc, b) == Accounted(x, sc, b) /\ Progress(x, sc)

RunsSound ==
    /\ scenario \in Scenarios /\ budget \in Budgets /\ run \in [RunId -> Run]
    /\ \A r \in RunId : Sound(run[r], scenario, budget)

------------------------------------------------------------------------------
(* Sessions are counted from one, checks are a sequence.                    *)
LEMMA ScenarioFacts ==
    ASSUME NEW sc \in Scenarios
    PROVE  sc.sessions \in Nat \ {0} /\ Len(sc.checks) \in Nat
           /\ DOMAIN sc.checks = 1..Len(sc.checks)
BY EvalRunConstants DEF EvalRunConstants

(* The budget is a number.                                                  *)
LEMMA BudgetFacts == budget \in Budgets => budget \in Nat
BY EvalRunConstants DEF EvalRunConstants

(* What _tally changes: the cost, and the session in which it passes the    *)
(* budget.                                                                  *)
LEMMA SpendFacts ==
    ASSUME NEW x \in Run, NEW n \in Nat, budget \in Budgets, x.overAt # 0 <=> x.cost > budget
    PROVE  \E cost \in Nat, over \in Nat :
             /\ Spend(x, n) = [x EXCEPT !.cost = cost, !.overAt = over]
             /\ over # 0 <=> cost > budget
             /\ x.overAt # 0 => over = x.overAt
             /\ over # 0 => x.overAt # 0 \/ over = x.session
             /\ cost <= budget => x.cost <= budget
             /\ \A y \in Run : y.cost = x.cost => Spend(y, n).cost = cost
<1> DEFINE cost == IF x.cost + n > budget THEN budget + 1 ELSE x.cost + n
           over == IF x.overAt = 0 /\ cost > budget THEN x.session ELSE x.overAt
<1>1. x.cost \in Nat /\ x.overAt \in Nat /\ x.session \in Nat \ {0} /\ budget \in Nat
  BY BudgetFacts DEF Run
<1>2. cost \in Nat /\ over \in Nat
  BY <1>1
<1>3. Spend(x, n) = [x EXCEPT !.cost = cost, !.overAt = over]
  BY DEF Spend
<1>4. /\ over # 0 <=> cost > budget
      /\ x.overAt # 0 => over = x.overAt
      /\ over # 0 => x.overAt # 0 \/ over = x.session
      /\ cost <= budget => x.cost <= budget
  BY <1>1
<1>5. \A y \in Run : y.cost = x.cost => Spend(y, n).cost = cost
  BY DEF Spend, Run
<1> HIDE DEF cost, over
<1> QED
  BY <1>2, <1>3, <1>4, <1>5

(* A run with a new value that is sound leaves every run sound.             *)
LEMMA SetRunSound ==
    ASSUME RunsSound, NEW r \in RunId, NEW y, Sound(y, scenario, budget), SetRun(r, y)
    PROVE  RunsSound'
<1> SUFFICES ASSUME scenario' = scenario, budget' = budget, run' = [run EXCEPT ![r] = y]
             PROVE  RunsSound'
  BY DEF SetRun
<1>1. y \in Run
  BY DEF Sound, Accounted
<1>2. run' \in [RunId -> Run]
  BY <1>1 DEF RunsSound
<1>3. \A q \in RunId : run'[q] = IF q = r THEN y ELSE run[q]
  BY DEF RunsSound
<1> QED
  BY <1>2, <1>3 DEF RunsSound

(* A line that is no verdict changes nothing of a run that has not ended.   *)
LEMMA NoteSound ==
    ASSUME NEW sc, NEW b, NEW x, Accounted(x, sc, b), x.stage # "ended", NEW e \in Quiet
    PROVE  /\ Accounted(Note(x, e), sc, b)
           /\ Progress(x, sc) => Progress(Note(x, e), sc)
           /\ Note(x, e).stage = x.stage /\ Note(x, e).cost = x.cost
           /\ Note(x, e).results = x.results /\ Note(x, e).done = x.done
           /\ Note(x, e).pending = x.pending /\ Note(x, e).session = x.session
           /\ Note(x, e).overAt = x.overAt
<1> DEFINE n == Note(x, e)
<1>1. x \in Run /\ x.log \in Seq(Quiet) /\ x.file \in {"none", "running"}
  BY DEF Accounted, Reported
<1>2. Append(x.log, e) \in Seq(Quiet) /\ Append(x.log, e) \in Seq(Terminal \cup Quiet)
  BY <1>1
<1>3. n = [x EXCEPT !.log = Append(x.log, e)]
  BY <1>1 DEF Note
<1>4. n \in Run
  BY <1>1, <1>2, <1>3 DEF Run
<1>5. /\ n.stage = x.stage /\ n.session = x.session /\ n.file = x.file
      /\ n.status = x.status /\ n.results = x.results /\ n.cost = x.cost
      /\ n.pending = x.pending /\ n.rows = x.rows /\ n.deleted = x.deleted
      /\ n.done = x.done /\ n.overAt = x.overAt /\ n.cut = x.cut
      /\ n.log = Append(x.log, e)
  BY <1>1, <1>3 DEF Run
<1> HIDE DEF n
<1>6. (Progress(x, sc) => Progress(n, sc)) /\ Metering(n, b)
  BY <1>5 DEF Accounted, Progress, Metering
<1>7. Reported(n, sc)
  <2>1. x.stage = "cleaning" => x.status \in Terminal /\ Earned(x, x.status, sc)
    BY DEF Accounted, Reported
  <2>2. Earned(x, x.status, sc) => Earned(n, n.status, sc)
    BY <1>5 DEF Earned
  <2> QED
    BY <1>1, <1>2, <1>5, <2>1, <2>2 DEF Reported
<1> QED
  BY <1>4, <1>5, <1>6, <1>7 DEF Accounted, n

(* An end that is earned is sound.                                          *)
LEMMA EndingSound ==
    ASSUME NEW sc, NEW b, NEW x, Accounted(x, sc, b), x.stage # "ended",
           NEW s \in Terminal, Earned(x, s, sc)
    PROVE  Sound(Ending(x, s), sc, b) /\ Ending(x, s).stage = "cleaning"
<1> DEFINE n == Ending(x, s)
<1>1. x \in Run /\ x.log \in Seq(Quiet) /\ x.file \in {"none", "running"}
  BY DEF Accounted, Reported
<1>2. n = [x EXCEPT !.stage = "cleaning", !.status = s]
  BY DEF Ending
<1>3. n \in Run
  BY <1>1, <1>2 DEF Run, Terminal
<1>4. /\ n.stage = "cleaning" /\ n.session = x.session /\ n.file = x.file
      /\ n.status = s /\ n.results = x.results /\ n.cost = x.cost
      /\ n.pending = x.pending
      /\ n.done = x.done /\ n.overAt = x.overAt /\ n.log = x.log
  BY <1>1, <1>2 DEF Run
<1> HIDE DEF n
<1>5. Progress(n, sc) /\ Metering(n, b)
  BY <1>4 DEF Accounted, Progress, Metering, InSession
<1>6. Reported(n, sc)
  BY <1>1, <1>4 DEF Reported, Earned
<1> QED
  BY <1>3, <1>4, <1>5, <1>6 DEF Sound, Accounted, n

(* An end that is no verdict takes nothing.                                 *)
LEMMA AbortSound ==
    ASSUME NEW sc, NEW b, NEW x, Accounted(x, sc, b), x.stage # "ended",
           NEW s \in {"error", "over_budget", "cancelled"}
    PROVE  Sound(Ending(x, s), sc, b) /\ Ending(x, s).stage = "cleaning"
<1>1. s \in Terminal /\ Earned(x, s, sc)
  BY DEF Terminal, Earned
<1> QED
  BY <1>1, EndingSound

(* The verdict of all results is earned.                                    *)
LEMMA VerdictSound ==
    ASSUME NEW sc, NEW b, NEW x, Accounted(x, sc, b), x.stage # "ended",
           x.done = sc.sessions, Len(x.results) = Len(sc.checks),
           DOMAIN sc.checks = 1..Len(sc.checks),
           \A i \in 1..Len(x.results) : x.results[i] /\ sc.checks[i] = Drain => ~x.pending
    PROVE  Sound(Verdict(x), sc, b)
<1>1. x.results \in Seq(BOOLEAN)
  BY DEF Accounted, Run
<1>2. CASE \A i \in DOMAIN x.results : x.results[i]
  <2>1. Drain \in Range(sc.checks) => ~x.pending
    BY <1>1, <1>2 DEF Range
  <2>2. Earned(x, "passed", sc)
    BY <1>1, <1>2, <2>1 DEF Earned
  <2>3. Verdict(x) = Ending(x, "passed")
    BY <1>2 DEF Verdict
  <2> QED
    BY <2>2, <2>3, EndingSound DEF Terminal
<1>3. CASE ~ \A i \in DOMAIN x.results : x.results[i]
  <2>1. Earned(x, "failed", sc)
    BY DEF Earned
  <2>2. Verdict(x) = Ending(x, "failed")
    BY <1>3 DEF Verdict
  <2> QED
    BY <2>1, <2>2, EndingSound DEF Terminal
<1> QED
  BY <1>2, <1>3

(* A call is counted in the session it is made in.                          *)
LEMMA SpendSound ==
    ASSUME NEW x, NEW n \in Nat, budget \in Budgets, Accounted(x, scenario, budget),
           x.done <= x.session \/ Spend(x, n).cost <= budget,
           x.stage \notin {"none", "created"}
    PROVE  /\ Accounted(Spend(x, n), scenario, budget)
           /\ Progress(x, scenario) /\ (x.stage # "passes" \/ Spend(x, n).cost <= budget)
                => Progress(Spend(x, n), scenario)
           /\ Spend(x, n).stage = x.stage /\ Spend(x, n).results = x.results
           /\ Spend(x, n).done = x.done /\ Spend(x, n).pending = x.pending
           /\ Spend(x, n).session = x.session
           /\ x.overAt \in {0, x.session} => Spend(x, n).overAt \in {0, x.session}
<1>1. x \in Run /\ budget \in Nat
  BY BudgetFacts DEF Accounted
<1>2. x.overAt # 0 <=> x.cost > budget
  BY DEF Accounted, Metering
<1>3. PICK cost \in Nat, over \in Nat :
        /\ Spend(x, n) = [x EXCEPT !.cost = cost, !.overAt = over]
        /\ over # 0 <=> cost > budget
        /\ x.overAt # 0 => over = x.overAt
        /\ over # 0 => x.overAt # 0 \/ over = x.session
  BY <1>1, <1>2, SpendFacts
<1> DEFINE q == [x EXCEPT !.cost = cost, !.overAt = over]
<1>4. q \in Run
  BY <1>1 DEF Run
<1>5. /\ q.stage = x.stage /\ q.session = x.session /\ q.file = x.file
      /\ q.status = x.status /\ q.results = x.results /\ q.cost = cost
      /\ q.pending = x.pending /\ q.rows = x.rows /\ q.deleted = x.deleted
      /\ q.done = x.done /\ q.overAt = over /\ q.cut = x.cut /\ q.log = x.log
  BY <1>1 DEF Run
<1>6. Spend(x, n) = q
  BY <1>3
<1> HIDE DEF q
<1>7. Spend(x, n).cost <= budget => over = 0
  BY <1>1, <1>3, <1>5, <1>6
<1>8. Progress(x, scenario) /\ (x.stage # "passes" \/ Spend(x, n).cost <= budget)
        => Progress(q, scenario)
  BY <1>5, <1>7 DEF Progress, InSession
<1>9. x.done \in Nat /\ x.session \in Nat /\ x.overAt \in Nat
  BY <1>1 DEF Run
<1>10. Metering(q, budget)
  BY <1>3, <1>5, <1>7, <1>9 DEF Accounted, Metering
<1>11. Reported(q, scenario)
  BY <1>5 DEF Accounted, Reported, Earned
<1>12. x.overAt \in {0, x.session} => over \in {0, x.session}
  BY <1>3
<1> QED
  BY <1>4, <1>5, <1>6, <1>8, <1>10, <1>11, <1>12 DEF Accounted

(* A session begins.                                                        *)
LEMMA NextSessionSound ==
    ASSUME NEW x, Accounted(x, scenario, budget), x.stage # "ended",
           x.done + 1 = x.session, x.session <= scenario.sessions, x.results = <<>>
    PROVE  Sound(NextSession(x), scenario, budget) /\ NextSession(x).cost = x.cost
           /\ NextSession(x).stage \in {"replay", "student"}
<1>1. PICK stage \in {"replay", "student"} :
        NextSession(x) = Note([x EXCEPT !.stage = stage], "other")
  BY DEF NextSession
<1> DEFINE q == [x EXCEPT !.stage = stage]
<1>2. x \in Run
  BY DEF Accounted
<1>3. q \in Run
  BY <1>2 DEF Run, Working
<1>4. /\ q.stage = stage /\ q.session = x.session /\ q.file = x.file
      /\ q.status = x.status /\ q.results = x.results /\ q.cost = x.cost
      /\ q.pending = x.pending /\ q.rows = x.rows /\ q.deleted = x.deleted
      /\ q.done = x.done /\ q.overAt = x.overAt /\ q.cut = x.cut /\ q.log = x.log
  BY <1>2 DEF Run
<1>5. NextSession(x) = Note(q, "other")
  BY <1>1
<1> HIDE DEF q
<1>6. Metering(q, budget) /\ Reported(q, scenario)
  BY <1>4 DEF Accounted, Metering, Reported
<1>7. Progress(q, scenario)
  BY <1>4 DEF Progress, InSession
<1>8. Accounted(q, scenario, budget) /\ q.stage # "ended" /\ "other" \in Quiet
  BY <1>3, <1>4, <1>6 DEF Accounted, Quiet
<1>9. /\ Accounted(Note(q, "other"), scenario, budget)
      /\ Progress(q, scenario) => Progress(Note(q, "other"), scenario)
      /\ Note(q, "other").stage = q.stage /\ Note(q, "other").cost = q.cost
  BY <1>8, NoteSound
<1> QED
  BY <1>4, <1>5, <1>7, <1>9 DEF Sound

(* A session ends: the next one begins, the checks do, or the run has its   *)
(* verdict.                                                                 *)
LEMMA OnwardSound ==
    ASSUME NEW x, scenario \in Scenarios, Accounted(x, scenario, budget),
           x.stage \in InSession, x.results = <<>>, x.overAt \in {0, x.session},
           x.done + 1 = x.session, x.session <= scenario.sessions
    PROVE  Sound(Onward(x), scenario, budget) /\ Onward(x).cost = x.cost
           /\ Onward(x).stage \in {"replay", "student", "check", "cleaning"}
<1> DEFINE p == [x EXCEPT !.done = x.done + 1]
           s == Note(p, "other")
           n == [s EXCEPT !.session = s.session + 1]
           c == [s EXCEPT !.stage = "check"]
<1>1. x \in Run /\ x.done \in Nat /\ x.session \in Nat \ {0} /\ x.overAt \in Nat
  BY DEF Accounted, Run
<1>2. p \in Run
  BY <1>1 DEF Run
<1>3. /\ p.stage = x.stage /\ p.session = x.session /\ p.file = x.file
      /\ p.status = x.status /\ p.results = x.results /\ p.cost = x.cost
      /\ p.pending = x.pending /\ p.rows = x.rows /\ p.deleted = x.deleted
      /\ p.done = x.session /\ p.overAt = x.overAt /\ p.cut = x.cut /\ p.log = x.log
  BY <1>1 DEF Run
<1>4. s = Note([x EXCEPT !.done = @ + 1], "other")
  BY <1>1 DEF Run
<1> HIDE DEF p
<1>5. Metering(p, budget) /\ Reported(p, scenario) /\ p.stage # "ended"
  BY <1>1, <1>3 DEF Accounted, Metering, Reported, InSession
<1>6. Accounted(s, scenario, budget)
      /\ s.stage = x.stage /\ s.cost = x.cost /\ s.results = <<>> /\ s.done = x.session
      /\ s.session = x.session /\ s.overAt = x.overAt
  BY <1>2, <1>3, <1>5, NoteSound DEF Accounted, Quiet
<1> HIDE DEF s
<1>7. s \in Run /\ s.stage # "ended"
  BY <1>6 DEF Accounted, InSession
<1>8. Onward(x) =
        IF x.session < scenario.sessions THEN NextSession(n)
        ELSE IF scenario.checks # <<>> THEN c ELSE Verdict(s)
  BY <1>4 DEF Onward
<1>9. scenario.sessions \in Nat /\ Len(scenario.checks) \in Nat
      /\ DOMAIN scenario.checks = 1..Len(scenario.checks)
  BY ScenarioFacts
<1>10. CASE x.session < scenario.sessions
  <2>1. n \in Run
    BY <1>1, <1>6, <1>7 DEF Run
  <2>2. /\ n.stage = s.stage /\ n.session = x.session + 1 /\ n.file = s.file
        /\ n.status = s.status /\ n.results = s.results /\ n.cost = s.cost
        /\ n.pending = s.pending /\ n.rows = s.rows /\ n.deleted = s.deleted
        /\ n.done = s.done /\ n.overAt = s.overAt /\ n.cut = s.cut /\ n.log = s.log
    BY <1>6, <1>7 DEF Run
  <2> HIDE DEF n
  <2>3. Metering(n, budget) /\ Reported(n, scenario)
    BY <1>6, <2>2 DEF Accounted, Metering, Reported, Earned
  <2>4. Accounted(n, scenario, budget) /\ n.stage # "ended"
    BY <1>7, <2>1, <2>2, <2>3 DEF Accounted
  <2>5. n.done + 1 = n.session /\ n.session <= scenario.sessions /\ n.results = <<>>
    BY <1>1, <1>6, <1>9, <1>10, <2>2
  <2> QED
    BY <1>6, <1>8, <1>10, <2>2, <2>4, <2>5, NextSessionSound
<1>11. CASE ~(x.session < scenario.sessions) /\ scenario.checks # <<>>
  <2>1. c \in Run
    BY <1>7 DEF Run, Working
  <2>2. /\ c.stage = "check" /\ c.session = s.session /\ c.file = s.file
        /\ c.status = s.status /\ c.results = s.results /\ c.cost = s.cost
        /\ c.pending = s.pending /\ c.rows = s.rows /\ c.deleted = s.deleted
        /\ c.done = s.done /\ c.overAt = s.overAt /\ c.cut = s.cut /\ c.log = s.log
    BY <1>6, <1>7 DEF Run
  <2> HIDE DEF c
  <2>3. Metering(c, budget) /\ Reported(c, scenario)
    BY <1>6, <1>7, <2>2 DEF Accounted, Metering, Reported, Earned
  <2>4. Len(scenario.checks) # 0
    BY <1>11, EvalRunConstants DEF EvalRunConstants
  <2>5. Progress(c, scenario)
    BY <1>1, <1>6, <1>9, <1>11, <2>2, <2>4 DEF Progress, InSession
  <2> QED
    BY <1>6, <1>8, <1>11, <2>1, <2>2, <2>3, <2>5 DEF Sound, Accounted
<1>12. CASE ~(x.session < scenario.sessions) /\ scenario.checks = <<>>
  <2>1. s.done = scenario.sessions /\ Len(s.results) = Len(scenario.checks)
        /\ Len(s.results) = 0
    BY <1>1, <1>6, <1>9, <1>12
  <2>2. \A i \in 1..Len(s.results) : s.results[i] /\ scenario.checks[i] = Drain => ~s.pending
    BY <2>1
  <2>3. Sound(Verdict(s), scenario, budget)
    BY <1>6, <1>7, <1>9, <2>1, <2>2, VerdictSound
  <2>4. Verdict(s).cost = s.cost /\ Verdict(s).stage = "cleaning"
    BY <1>7 DEF Verdict, Ending, Run
  <2> QED
    BY <1>6, <1>8, <1>12, <2>3, <2>4
<1> QED
  BY <1>10, <1>11, <1>12

(* Metered calls outside the passes: the run ends over its budget, or goes *)
(* on within it.                                                            *)
LEMMA MeteredSound ==
    ASSUME RunsSound, NEW r \in RunId, NEW n \in Nat, NEW y, run[r].stage \in {"student", "tutor", "extract"},
           run[r].overAt = 0 => /\ Sound(y, scenario, budget) /\ y.cost = run[r].cost
                                /\ y.stage \notin {"none", "created"},
           Metered(r, n, y)
    PROVE  RunsSound'
<1>1. Sound(run[r], scenario, budget) /\ scenario \in Scenarios /\ budget \in Budgets
  BY DEF RunsSound
<1>2. Accounted(run[r], scenario, budget) /\ Progress(run[r], scenario) /\ run[r] \in Run
  BY <1>1 DEF Sound, Accounted
<1>3. run[r].done <= run[r].session
  BY <1>2 DEF Progress, InSession, Run
<1>4. CASE Spend(run[r], n).cost > budget
  <2> DEFINE s == Spend(run[r], n)
  <2>1. Accounted(s, scenario, budget) /\ s.stage = run[r].stage
    BY <1>1, <1>2, <1>3, SpendSound
  <2> HIDE DEF s
  <2>2. Sound(Ending(s, "over_budget"), scenario, budget)
        /\ Ending(s, "over_budget").stage = "cleaning"
    BY <2>1, AbortSound
  <2>3. Sound(Note(Ending(s, "over_budget"), "other"), scenario, budget)
    BY <2>2, NoteSound DEF Sound, Quiet
  <2> QED
    BY <1>4, <2>3, SetRunSound DEF Metered, s
<1>5. CASE ~(Spend(run[r], n).cost > budget)
  <2>1. PICK cost \in Nat :
          /\ Spend(run[r], n).cost = cost
          /\ cost <= budget => run[r].cost <= budget
          /\ \A z \in Run : z.cost = run[r].cost => Spend(z, n).cost = cost
    <3>1. run[r].overAt # 0 <=> run[r].cost > budget
      BY <1>2 DEF Accounted, Metering
    <3>2. PICK cost \in Nat, over \in Nat :
            /\ Spend(run[r], n) = [run[r] EXCEPT !.cost = cost, !.overAt = over]
            /\ over # 0 <=> cost > budget
            /\ run[r].overAt # 0 => over = run[r].overAt
            /\ over # 0 => run[r].overAt # 0 \/ over = run[r].session
            /\ cost <= budget => run[r].cost <= budget
            /\ \A y0 \in Run : y0.cost = run[r].cost => Spend(y0, n).cost = cost
      BY <1>1, <1>2, <3>1, SpendFacts
    <3>3. Spend(run[r], n).cost = cost
      BY <1>2, <3>2 DEF Run
    <3> QED
      BY <3>2, <3>3
  <2>2. cost <= budget /\ run[r].cost <= budget
    BY <1>1, <1>5, <2>1, BudgetFacts
  <2>3. run[r].overAt = 0
    BY <1>1, <1>2, <2>2, BudgetFacts DEF Accounted, Metering, Run
  <2>4. y \in Run /\ Spend(y, n).cost <= budget
    BY <2>1, <2>2, <2>3 DEF Sound, Accounted
  <2>5. Sound(Spend(y, n), scenario, budget)
    BY <1>1, <2>3, <2>4, SpendSound DEF Sound
  <2> QED
    BY <1>5, <2>5, SetRunSound DEF Metered
<1> QED
  BY <1>4, <1>5

(* The stage of a session moves on.                                         *)
LEMMA MoveSound ==
    ASSUME NEW x, Sound(x, scenario, budget), x.stage \in InSession,
           NEW stage \in InSession, stage = "passes" => x.overAt = 0
    PROVE  /\ Sound([x EXCEPT !.stage = stage], scenario, budget)
           /\ [x EXCEPT !.stage = stage].stage = stage
           /\ [x EXCEPT !.stage = stage].cost = x.cost
<1> DEFINE q == [x EXCEPT !.stage = stage]
<1>1. x \in Run
  BY DEF Sound, Accounted
<1>2. q \in Run
  BY <1>1 DEF Run, Working, InSession
<1>3. /\ q.stage = stage /\ q.session = x.session /\ q.file = x.file
      /\ q.status = x.status /\ q.results = x.results /\ q.cost = x.cost
      /\ q.pending = x.pending /\ q.rows = x.rows /\ q.deleted = x.deleted
      /\ q.done = x.done /\ q.overAt = x.overAt /\ q.cut = x.cut /\ q.log = x.log
  BY <1>1 DEF Run
<1> HIDE DEF q
<1>4. Metering(q, budget) /\ Reported(q, scenario) /\ Progress(q, scenario)
  BY <1>3 DEF Sound, Accounted, Metering, Reported, Progress, InSession
<1> QED
  BY <1>2, <1>3, <1>4 DEF Sound, Accounted, q

(* What consolidation finds to do changes nothing else before the checks.   *)
LEMMA PendingSound ==
    ASSUME NEW x, Sound(x, scenario, budget), x.stage \in InSession,
           NEW pending \in BOOLEAN, NEW rows \in BOOLEAN
    PROVE  /\ Sound([x EXCEPT !.pending = pending, !.rows = rows], scenario, budget)
           /\ [x EXCEPT !.pending = pending, !.rows = rows].stage = x.stage
           /\ [x EXCEPT !.pending = pending, !.rows = rows].cost = x.cost
<1> DEFINE q == [x EXCEPT !.pending = pending, !.rows = rows]
<1>1. x \in Run
  BY DEF Sound, Accounted
<1>2. q \in Run
  BY <1>1 DEF Run
<1>3. /\ q.stage = x.stage /\ q.session = x.session /\ q.file = x.file
      /\ q.status = x.status /\ q.results = x.results /\ q.cost = x.cost
      /\ q.done = x.done /\ q.overAt = x.overAt /\ q.cut = x.cut /\ q.log = x.log
  BY <1>1 DEF Run
<1> HIDE DEF q
<1>4. Metering(q, budget) /\ Reported(q, scenario) /\ Progress(q, scenario)
  BY <1>3 DEF Sound, Accounted, Metering, Reported, Progress, InSession
<1> QED
  BY <1>2, <1>3, <1>4 DEF Sound, Accounted, q

(* ingest leaves events to consolidate.                                     *)
LEMMA IngestedSound ==
    ASSUME NEW x, Sound(x, scenario, budget), x.stage \in {"tutor", "replay"}
    PROVE  Sound(Ingested(x), scenario, budget) /\ Ingested(x).cost = x.cost
           /\ Ingested(x).stage = "extract"
<1> DEFINE m == [x EXCEPT !.stage = "extract"]
           q == [m EXCEPT !.pending = TRUE, !.rows = TRUE]
<1>1. x.stage \in InSession /\ "extract" \in InSession
  BY DEF InSession
<1>2. Sound(m, scenario, budget) /\ m.stage = "extract" /\ m.cost = x.cost
  BY <1>1, MoveSound
<1>3. Ingested(x) = Note(q, "other")
  BY DEF Ingested
<1> HIDE DEF m
<1>4. Sound(q, scenario, budget) /\ q.stage = "extract" /\ q.cost = x.cost
  BY <1>1, <1>2, PendingSound
<1> HIDE DEF q
<1>5. Accounted(q, scenario, budget) /\ q.stage # "ended" /\ "other" \in Quiet
  BY <1>4 DEF Sound, Quiet
<1>6. /\ Accounted(Note(q, "other"), scenario, budget)
      /\ Progress(q, scenario) => Progress(Note(q, "other"), scenario)
      /\ Note(q, "other").stage = q.stage /\ Note(q, "other").cost = q.cost
  BY <1>5, NoteSound
<1> QED
  BY <1>3, <1>4, <1>6 DEF Sound

(* An end with a line in the log.                                           *)
LEMMA AbortNoteSound ==
    ASSUME NEW x, Accounted(x, scenario, budget), x.stage # "ended",
           NEW s \in {"error", "over_budget", "cancelled"}
    PROVE  Sound(Note(Ending(x, s), "other"), scenario, budget)
<1> DEFINE q == Ending(x, s)
<1>1. Sound(q, scenario, budget) /\ q.stage = "cleaning"
  BY AbortSound
<1> HIDE DEF q
<1>2. Accounted(q, scenario, budget) /\ q.stage # "ended" /\ "other" \in Quiet
  BY <1>1 DEF Sound, Quiet
<1>3. /\ Accounted(Note(q, "other"), scenario, budget)
      /\ Progress(q, scenario) => Progress(Note(q, "other"), scenario)
  BY <1>2, NoteSound
<1> QED
  BY <1>1, <1>3 DEF Sound, q

(* execute_run up to its first await.                                       *)
LEMMA BeginSound ==
    ASSUME RunsSound, NEW r \in RunId, Begin(r)
    PROVE  RunsSound'
<1> DEFINE x == run[r]
           p == [x EXCEPT !.file = "running"]
           begun == Note(p, "running")
<1>1. scenario \in Scenarios /\ Sound(x, scenario, budget) /\ x.stage = "created"
  BY DEF RunsSound, Begin, Resumes
<1>2. x \in Run
  BY <1>1 DEF Sound, Accounted
<1>3. p \in Run
  BY <1>2 DEF Run
<1>4. /\ p.stage = "created" /\ p.session = x.session /\ p.file = "running"
      /\ p.status = x.status /\ p.results = x.results /\ p.cost = x.cost
      /\ p.pending = x.pending
      /\ p.done = x.done /\ p.overAt = x.overAt /\ p.cut = x.cut /\ p.log = x.log
  BY <1>1, <1>2 DEF Run
<1>5. SetRun(r, IF Range(scenario.checks) \subseteq Registered
                THEN NextSession(begun) ELSE Note(Ending(begun, "error"), "other"))
  BY DEF Begin
<1> HIDE DEF p
<1>6. Accounted(p, scenario, budget) /\ p.stage # "ended" /\ "running" \in Quiet
  BY <1>1, <1>3, <1>4 DEF Sound, Accounted, Metering, Reported, Quiet
<1>7. Accounted(begun, scenario, budget)
      /\ begun.stage = p.stage /\ begun.results = p.results /\ begun.done = p.done
      /\ begun.session = p.session
  BY <1>6, NoteSound
<1> HIDE DEF begun
<1>8. p.results = <<>> /\ p.done = 0 /\ p.session = 1
  BY <1>1, <1>4 DEF Sound, Progress
<1>9. begun.done + 1 = begun.session /\ begun.session <= scenario.sessions
      /\ begun.stage # "ended" /\ begun.results = <<>>
  BY <1>1, <1>4, <1>7, <1>8, ScenarioFacts
<1>10. Sound(NextSession(begun), scenario, budget)
  BY <1>7, <1>9, NextSessionSound
<1>11. Sound(Note(Ending(begun, "error"), "other"), scenario, budget)
  BY <1>7, <1>9, AbortNoteSound
<1> HIDE DEF x
<1> QED
  BY <1>5, <1>10, <1>11, SetRunSound

(* The calls of a session, the passes aside.                                *)
LEMMA SessionSound ==
    ASSUME RunsSound, NEW r \in RunId, Student(r) \/ Tutor(r) \/ Replay(r) \/ Extract(r)
    PROVE  RunsSound'
<1> DEFINE x == run[r]
<1>1. scenario \in Scenarios /\ Sound(x, scenario, budget)
  BY DEF RunsSound
<1>2. Accounted(x, scenario, budget) /\ Progress(x, scenario)
  BY <1>1 DEF Sound
<1>3. CASE Student(r)
  <2> DEFINE q == [x EXCEPT !.stage = "tutor"]
  <2>1. x.stage = "student" /\ Metered(r, 1, Note(q, "other"))
    BY <1>3 DEF Student, Resumes
  <2>2. x.stage \in InSession /\ "tutor" \in InSession
    BY <2>1 DEF InSession
  <2>3. Sound(q, scenario, budget) /\ q.stage = "tutor" /\ q.cost = x.cost
    BY <1>1, <2>2, MoveSound
  <2> HIDE DEF q
  <2>4. Accounted(q, scenario, budget) /\ q.stage # "ended" /\ "other" \in Quiet
    BY <2>3 DEF Sound, Quiet
  <2>5. /\ Accounted(Note(q, "other"), scenario, budget)
        /\ Progress(q, scenario) => Progress(Note(q, "other"), scenario)
        /\ Note(q, "other").stage = q.stage /\ Note(q, "other").cost = q.cost
    BY <2>4, NoteSound
  <2>6. Sound(Note(q, "other"), scenario, budget)
    BY <2>3, <2>5 DEF Sound
  <2> QED
    BY <2>1, <2>3, <2>5, <2>6, MeteredSound
<1>4. CASE Tutor(r)
  <2>1. x.stage = "tutor" /\ Metered(r, 1, Ingested(x))
    BY <1>4 DEF Tutor, Resumes
  <2>2. Sound(Ingested(x), scenario, budget) /\ Ingested(x).cost = x.cost
        /\ Ingested(x).stage = "extract"
    BY <1>1, <2>1, IngestedSound
  <2> QED
    BY <2>1, <2>2, MeteredSound
<1>5. CASE Replay(r)
  <2>1. x.stage = "replay" /\ SetRun(r, Ingested(x))
    BY <1>5 DEF Replay, Resumes
  <2>2. Sound(Ingested(x), scenario, budget)
    BY <1>1, <2>1, IngestedSound
  <2> QED
    BY <2>1, <2>2, SetRunSound
<1>6. CASE Extract(r)
  <2>1. x.stage = "extract"
        /\ \/ \E calls \in 1..2 : Metered(r, calls, [x EXCEPT !.stage = "passes"])
           \/ Metered(r, 2, Onward(x))
    BY <1>6 DEF Extract, Resumes
  <2>2. x.stage \in InSession /\ "passes" \in InSession
    BY <2>1 DEF InSession
  <2>3. CASE \E calls \in 1..2 : Metered(r, calls, [x EXCEPT !.stage = "passes"])
    <3> DEFINE q == [x EXCEPT !.stage = "passes"]
    <3>1. x.overAt = 0 =>
            Sound(q, scenario, budget) /\ q.stage = "passes" /\ q.cost = x.cost
      BY <1>1, <2>2, MoveSound
    <3> HIDE DEF q
    <3>2. PICK calls \in 1..2 : Metered(r, calls, q)
      BY <2>3 DEF q
    <3> QED
      BY <2>1, <3>1, <3>2, MeteredSound
  <2>4. CASE Metered(r, 2, Onward(x))
    <3>1. x.results = <<>> /\ x.done + 1 = x.session /\ x.session <= scenario.sessions
      BY <1>2, <2>2 DEF Progress
    <3>2. x.overAt = 0 =>
            /\ Sound(Onward(x), scenario, budget) /\ Onward(x).cost = x.cost
            /\ Onward(x).stage \in {"replay", "student", "check", "cleaning"}
      BY <1>1, <1>2, <2>2, <3>1, OnwardSound
    <3> QED
      BY <2>1, <2>4, <3>2, MeteredSound
  <2> QED
    BY <2>1, <2>3, <2>4
<1> QED
  BY <1>3, <1>4, <1>5, <1>6

(* The passes end their session, within the budget or past it.              *)
LEMMA PassesSound ==
    ASSUME RunsSound, NEW r \in RunId, Passes(r)
    PROVE  RunsSound'
<1> DEFINE x == run[r]
           p == [x EXCEPT !.pending = FALSE]
<1>1. scenario \in Scenarios /\ budget \in Budgets /\ Sound(x, scenario, budget)
      /\ x.stage = "passes"
  BY DEF RunsSound, Passes, Resumes
<1>2. PICK calls \in 0..2 : SetRun(r, Onward(Spend(p, calls)))
  BY DEF Passes
<1>3. x \in Run /\ x.rows \in BOOLEAN /\ x.stage \in InSession
  BY <1>1 DEF Sound, Accounted, Run, InSession
<1>4. p = [x EXCEPT !.pending = FALSE, !.rows = x.rows]
  BY <1>3 DEF Run
<1>5. Sound(p, scenario, budget) /\ p.stage = "passes"
  BY <1>1, <1>3, <1>4, PendingSound
<1> HIDE DEF p, x
<1>6. p.done + 1 = p.session /\ p.session <= scenario.sessions /\ p.results = <<>>
      /\ p.overAt = 0 /\ p.done \in Nat /\ p.session \in Nat
  BY <1>5 DEF Sound, Accounted, Run, Progress, InSession
<1> DEFINE s == Spend(p, calls)
<1>7. p.done <= p.session /\ calls \in Nat /\ Accounted(p, scenario, budget)
  BY <1>5, <1>6 DEF Sound
<1>8. /\ Accounted(s, scenario, budget)
      /\ s.stage = p.stage /\ s.results = p.results /\ s.done = p.done
      /\ s.session = p.session
      /\ p.overAt \in {0, p.session} => s.overAt \in {0, p.session}
  BY <1>1, <1>5, <1>7, SpendSound
<1> HIDE DEF s
<1>9. s.stage \in InSession /\ s.results = <<>> /\ s.overAt \in {0, s.session}
      /\ s.done + 1 = s.session /\ s.session <= scenario.sessions
  BY <1>5, <1>6, <1>8 DEF InSession
<1>10. Sound(Onward(s), scenario, budget)
  BY <1>1, <1>8, <1>9, OnwardSound
<1> QED
  BY <1>2, <1>10, SetRunSound DEF s

(* A check adds its result; the last one brings the verdict.                *)
LEMMA CheckSound ==
    ASSUME RunsSound, NEW r \in RunId, RunCheck(r)
    PROVE  RunsSound'
<1> DEFINE x == run[r]
           name == scenario.checks[Len(x.results) + 1]
<1>1. scenario \in Scenarios /\ budget \in Budgets /\ Sound(x, scenario, budget)
      /\ x.stage = "check"
  BY DEF RunsSound, RunCheck, Resumes
<1>2. x \in Run /\ x.results \in Seq(BOOLEAN) /\ x.pending \in BOOLEAN
  BY <1>1 DEF Sound, Accounted, Run
<1>3. PICK passed \in BOOLEAN, calls \in 0..1 :
        LET ok == passed /\ (name = Drain => ~x.pending)
            n == Note(Spend([x EXCEPT !.results = Append(@, ok)], calls), "other")
        IN  SetRun(r, IF Len(n.results) = Len(scenario.checks) THEN Verdict(n) ELSE n)
  BY DEF RunCheck
<1> DEFINE ok == passed /\ (name = Drain => ~x.pending)
           q == [x EXCEPT !.results = Append(x.results, ok)]
           s == Spend(q, calls)
           n == Note(s, "other")
<1>4. SetRun(r, IF Len(n.results) = Len(scenario.checks) THEN Verdict(n) ELSE n)
  BY <1>2, <1>3 DEF Run
<1>5. ok \in BOOLEAN /\ (ok /\ name = Drain => ~x.pending)
  OBVIOUS
<1> HIDE DEF ok
<1>6. /\ Append(x.results, ok) \in Seq(BOOLEAN)
      /\ Len(Append(x.results, ok)) = Len(x.results) + 1
      /\ \A i \in 1..Len(x.results) : Append(x.results, ok)[i] = x.results[i]
      /\ Append(x.results, ok)[Len(x.results) + 1] = ok
  BY <1>2, <1>5
<1>7. q \in Run
  BY <1>2, <1>6 DEF Run
<1>8. /\ q.stage = x.stage /\ q.session = x.session /\ q.file = x.file
      /\ q.status = x.status /\ q.results = Append(x.results, ok) /\ q.cost = x.cost
      /\ q.pending = x.pending /\ q.rows = x.rows /\ q.deleted = x.deleted
      /\ q.done = x.done /\ q.overAt = x.overAt /\ q.cut = x.cut /\ q.log = x.log
  BY <1>2 DEF Run
<1> HIDE DEF q
<1>9. Accounted(q, scenario, budget)
  BY <1>1, <1>7, <1>8 DEF Sound, Accounted, Metering, Reported
<1>10. scenario.sessions \in Nat /\ Len(scenario.checks) \in Nat
       /\ DOMAIN scenario.checks = 1..Len(scenario.checks)
  BY <1>1, ScenarioFacts
<1>11. x.done = scenario.sessions /\ x.session = scenario.sessions
       /\ Len(x.results) < Len(scenario.checks)
       /\ \A i \in 1..Len(x.results) : x.results[i] /\ scenario.checks[i] = Drain => ~x.pending
  BY <1>1 DEF Sound, Progress
<1>12. q.done <= q.session /\ calls \in Nat /\ q.stage = "check"
  BY <1>1, <1>8, <1>10, <1>11
<1>13. /\ Accounted(s, scenario, budget)
       /\ s.stage = q.stage /\ s.results = q.results
       /\ s.done = q.done /\ s.pending = q.pending /\ s.session = q.session
  BY <1>1, <1>9, <1>12, SpendSound
<1> HIDE DEF s
<1>14. s.stage # "ended" /\ "other" \in Quiet
  BY <1>12, <1>13 DEF Quiet
<1>15. /\ Accounted(n, scenario, budget)
       /\ n.stage = s.stage /\ n.results = s.results /\ n.done = s.done
       /\ n.pending = s.pending /\ n.session = s.session
  BY <1>13, <1>14, NoteSound
<1> HIDE DEF n
<1>16. /\ n.stage = "check" /\ n.done = scenario.sessions /\ n.session = scenario.sessions
       /\ n.results = Append(x.results, ok) /\ n.pending = x.pending
  BY <1>8, <1>11, <1>12, <1>13, <1>15
<1>17. \A i \in 1..Len(n.results) : n.results[i] /\ scenario.checks[i] = Drain => ~n.pending
  <2> SUFFICES ASSUME NEW i \in 1..(Len(x.results) + 1),
                      Append(x.results, ok)[i], scenario.checks[i] = Drain
               PROVE  ~x.pending
    BY <1>6, <1>16
  <2>1. CASE i \in 1..Len(x.results)
    BY <1>6, <1>11, <2>1
  <2>2. CASE i = Len(x.results) + 1
    BY <1>5, <1>6, <2>2
  <2> QED
    BY <1>2, <2>1, <2>2
<1>18. CASE Len(n.results) = Len(scenario.checks)
  <2>1. Sound(Verdict(n), scenario, budget)
    BY <1>10, <1>15, <1>16, <1>17, <1>18, VerdictSound
  <2> QED
    BY <1>4, <1>18, <2>1, SetRunSound
<1>19. CASE Len(n.results) # Len(scenario.checks)
  <2>1. Len(n.results) < Len(scenario.checks)
    BY <1>2, <1>6, <1>10, <1>11, <1>16, <1>19
  <2>2. Progress(n, scenario)
    BY <1>16, <1>17, <2>1 DEF Progress, InSession
  <2> QED
    BY <1>4, <1>15, <1>19, <2>2, SetRunSound DEF Sound
<1> QED
  BY <1>18, <1>19

(* A run that ends, whatever ends it.                                       *)
LEMMA EndSound ==
    ASSUME RunsSound, NEW r \in RunId, Fail(r) \/ Cancelled(r) \/ Raise(r)
    PROVE  RunsSound'
<1> DEFINE x == run[r]
<1>1. Sound(x, scenario, budget)
  BY DEF RunsSound
<1>2. Accounted(x, scenario, budget) /\ x \in Run /\ x.rows \in BOOLEAN
  BY <1>1 DEF Sound, Accounted, Run
<1>3. CASE Fail(r)
  <2>1. x.stage # "ended" /\ SetRun(r, Note(Ending(x, "error"), "other"))
    BY <1>3 DEF Fail, Resumes, Working
  <2>2. Sound(Note(Ending(x, "error"), "other"), scenario, budget)
    BY <1>2, <2>1, AbortNoteSound
  <2> QED
    BY <2>1, <2>2, SetRunSound
<1>4. ASSUME NEW y \in Run, SetRun(r, y), y.stage = "ended", y.cut,
             y.file = x.file, y.log = x.log, x.stage # "ended",
             y.overAt = x.overAt, y.cost = x.cost, y.done = x.done
      PROVE  RunsSound'
  <2>1. Metering(y, budget) /\ Progress(y, scenario) /\ Reported(y, scenario)
    BY <1>1, <1>4 DEF Sound, Accounted, Metering, Progress, Reported, InSession
  <2> QED
    BY <1>4, <2>1, SetRunSound DEF Sound, Accounted
<1>5. CASE Raise(r)
  <2> DEFINE y == [x EXCEPT !.stage = "ended", !.status = "crashed", !.cut = TRUE]
  <2>1. x.stage # "ended" /\ SetRun(r, y)
    BY <1>5 DEF Raise, Resumes
  <2>2. y \in Run
    BY <1>2 DEF Run
  <2>3. y.stage = "ended" /\ y.cut /\ y.file = x.file /\ y.log = x.log
        /\ y.overAt = x.overAt /\ y.cost = x.cost /\ y.done = x.done
    BY <1>2 DEF Run
  <2> HIDE DEF y, x
  <2> QED
    BY <1>4, <2>1, <2>2, <2>3
<1>6. CASE Cancelled(r)
  <2> DEFINE z == [x EXCEPT !.cancel = FALSE]
  <2>1. x.stage \in Working \cup {"created", "cleaning"}
    BY <1>6 DEF Cancelled, Alive
  <2>2. z \in Run
    BY <1>2 DEF Run
  <2>3. /\ z.stage = x.stage /\ z.session = x.session /\ z.file = x.file
        /\ z.status = x.status /\ z.results = x.results /\ z.cost = x.cost
        /\ z.pending = x.pending /\ z.rows = x.rows /\ z.deleted = x.deleted
        /\ z.done = x.done /\ z.overAt = x.overAt /\ z.cut = x.cut /\ z.log = x.log
    BY <1>2 DEF Run
  <2>4. Accounted(z, scenario, budget) /\ z.stage # "ended"
    BY <1>2, <2>1, <2>2, <2>3 DEF Accounted, Metering, Reported, Earned, Working
  <2>5. CASE x.stage \in Working
    <3>1. SetRun(r, Ending(z, "cancelled"))
      BY <1>6, <2>3, <2>5 DEF Cancelled, Working
    <3> HIDE DEF z
    <3>2. Sound(Ending(z, "cancelled"), scenario, budget)
      BY <2>4, AbortSound
    <3> QED
      BY <3>1, <3>2, SetRunSound
  <2>6. CASE x.stage = "created"
    <3> DEFINE y == [z EXCEPT !.stage = "ended", !.cut = TRUE]
    <3>1. SetRun(r, y)
      BY <1>6, <2>3, <2>6 DEF Cancelled, Working
    <3> HIDE DEF z
    <3>2. y \in Run
      BY <2>2 DEF Run
    <3>3. y.stage = "ended" /\ y.cut /\ y.file = x.file /\ y.log = x.log
          /\ y.overAt = x.overAt /\ y.cost = x.cost /\ y.done = x.done
      BY <2>2, <2>3 DEF Run
    <3>4. x.stage # "ended"
      BY <2>6
    <3> HIDE DEF y, x
    <3> QED
      BY <1>4, <3>1, <3>2, <3>3, <3>4
  <2>7. CASE x.stage = "cleaning"
    <3>1. PICK rows \in {z.rows, FALSE} :
            SetRun(r, [z EXCEPT !.stage = "ended", !.cut = TRUE, !.rows = rows])
      BY <1>6, <2>3, <2>7 DEF Cancelled, Working
    <3> DEFINE y == [z EXCEPT !.stage = "ended", !.cut = TRUE, !.rows = rows]
    <3> HIDE DEF z
    <3>2. y \in Run
      BY <1>2, <2>2, <2>3 DEF Run
    <3>3. y.stage = "ended" /\ y.cut /\ y.file = x.file /\ y.log = x.log
          /\ y.overAt = x.overAt /\ y.cost = x.cost /\ y.done = x.done
      BY <2>2, <2>3 DEF Run
    <3>4. x.stage # "ended" /\ SetRun(r, y)
      BY <2>7, <3>1
    <3> HIDE DEF y, x
    <3> QED
      BY <1>4, <3>2, <3>3, <3>4
  <2> QED
    BY <2>1, <2>5, <2>6, <2>7
<1> QED
  BY <1>3, <1>5, <1>6

(* The finally block writes the verdict down.                               *)
LEMMA CleanUpSound ==
    ASSUME RunsSound, NEW r \in RunId, CleanUp(r)
    PROVE  RunsSound'
<1> DEFINE x == run[r]
<1>1. Sound(x, scenario, budget) /\ x.stage = "cleaning"
  BY DEF RunsSound, CleanUp, Resumes
<1>2. /\ x \in Run /\ x.rows \in BOOLEAN /\ x.log \in Seq(Quiet)
      /\ x.status \in Terminal /\ Earned(x, x.status, scenario)
  BY <1>1 DEF Sound, Accounted, Reported, Run
<1>3. PICK gone \in BOOLEAN :
        SetRun(r, Finished([x EXCEPT !.deleted = gone, !.rows = @ /\ ~gone]))
  BY DEF CleanUp
<1> DEFINE rows == x.rows /\ ~gone
           log == Append(x.log, x.status)
           y == [x EXCEPT !.deleted = gone, !.rows = rows, !.stage = "ended",
                          !.file = x.status, !.log = log]
<1>4. Finished([x EXCEPT !.deleted = gone, !.rows = @ /\ ~gone]) = y
  BY <1>2 DEF Finished, Note, Run
<1>5. rows \in BOOLEAN /\ (gone => ~rows)
  OBVIOUS
<1>6. log \in Seq(Terminal \cup Quiet)
  <2>1. x.log \in Seq(Terminal \cup Quiet)
    BY <1>2 DEF Run
  <2> QED
    BY <1>2, <2>1
<1>7. \E l \in Seq(Quiet) : log = Append(l, x.status)
  BY <1>2
<1> HIDE DEF rows, log
<1>8. y \in Run
  BY <1>2, <1>5, <1>6 DEF Run
<1>9. /\ y.stage = "ended" /\ y.session = x.session /\ y.file = x.status
      /\ y.status = x.status /\ y.results = x.results /\ y.cost = x.cost
      /\ y.pending = x.pending /\ y.rows = rows /\ y.deleted = gone
      /\ y.done = x.done /\ y.overAt = x.overAt /\ y.log = log
  BY <1>2 DEF Run
<1> HIDE DEF y
<1>10. Metering(y, budget) /\ Progress(y, scenario)
  BY <1>1, <1>9 DEF Sound, Accounted, Metering, Progress, InSession
<1>11. Earned(y, y.file, scenario)
  BY <1>2, <1>9 DEF Earned
<1>12. Reported(y, scenario)
  BY <1>2, <1>5, <1>7, <1>9, <1>11 DEF Reported
<1>13. Sound(y, scenario, budget)
  BY <1>8, <1>10, <1>12 DEF Sound, Accounted
<1> QED
  BY <1>3, <1>4, <1>13, SetRunSound

(* A request to cancel changes no more than its flag.                       *)
LEMMA FlagSound ==
    ASSUME NEW x, Sound(x, scenario, budget), NEW cancel \in BOOLEAN
    PROVE  Sound([x EXCEPT !.cancel = cancel], scenario, budget)
<1> DEFINE q == [x EXCEPT !.cancel = cancel]
<1>1. x \in Run
  BY DEF Sound, Accounted
<1>2. q \in Run
  BY <1>1 DEF Run
<1>3. /\ q.stage = x.stage /\ q.session = x.session /\ q.file = x.file
      /\ q.status = x.status /\ q.results = x.results /\ q.cost = x.cost
      /\ q.pending = x.pending /\ q.rows = x.rows /\ q.deleted = x.deleted
      /\ q.done = x.done /\ q.overAt = x.overAt /\ q.cut = x.cut /\ q.log = x.log
  BY <1>1 DEF Run
<1> HIDE DEF q
<1>4. Metering(q, budget) /\ Reported(q, scenario) /\ Progress(q, scenario)
  BY <1>3 DEF Sound, Accounted, Metering, Reported, Earned, Progress
<1> QED
  BY <1>2, <1>4 DEF Sound, Accounted, q

(* POST /eval/runs and its cancel.                                          *)
LEMMA RequestSound ==
    ASSUME RunsSound, Launch \/ CancelRun
    PROVE  RunsSound'
<1>1. CASE Launch
  <2>1. PICK r \in RunId :
          run[r].stage = "none" /\ SetRun(r, [run[r] EXCEPT !.stage = "created"])
    BY <1>1 DEF Launch, Serving
  <2> DEFINE x == run[r]
             q == [x EXCEPT !.stage = "created"]
  <2>2. Sound(x, scenario, budget) /\ x \in Run
    BY DEF RunsSound, Sound, Accounted
  <2>3. q \in Run
    BY <2>2 DEF Run
  <2>4. /\ q.stage = "created" /\ q.session = x.session /\ q.file = x.file
        /\ q.results = x.results /\ q.cost = x.cost
        /\ q.done = x.done /\ q.overAt = x.overAt /\ q.log = x.log
    BY <2>2 DEF Run
  <2>5. SetRun(r, q) /\ x.stage = "none"
    BY <2>1
  <2> HIDE DEF q
  <2>6. Metering(q, budget) /\ Reported(q, scenario) /\ Progress(q, scenario)
    BY <2>2, <2>4, <2>5 DEF Sound, Accounted, Metering, Reported, Progress, InSession
  <2> QED
    BY <2>3, <2>5, <2>6, SetRunSound DEF Sound, Accounted
<1>2. CASE CancelRun
  <2>1. PICK r \in RunId : SetRun(r, [run[r] EXCEPT !.cancel = TRUE])
    BY <1>2 DEF CancelRun, Serving
  <2>2. Sound([run[r] EXCEPT !.cancel = TRUE], scenario, budget)
    BY FlagSound DEF RunsSound
  <2> QED
    BY <2>1, <2>2, SetRunSound
<1> QED
  BY <1>1, <1>2

(* A crash cuts the runs it meets.                                          *)
LEMMA CrashSound ==
    ASSUME RunsSound, Crash
    PROVE  RunsSound'
<1> DEFINE ended(x) == [x EXCEPT !.stage = "ended", !.cut = TRUE, !.cancel = FALSE]
<1>1. /\ scenario' = scenario /\ budget' = budget
      /\ run' = [r \in RunId |-> IF Alive(r) THEN ended(run[r]) ELSE run[r]]
  BY DEF Crash, Serving
<1>2. ASSUME NEW r \in RunId, Alive(r)
      PROVE  Sound(ended(run[r]), scenario, budget)
  <2> DEFINE x == run[r]
             q == ended(x)
  <2>1. Sound(x, scenario, budget) /\ x \in Run /\ x.stage # "ended"
    BY <1>2 DEF RunsSound, Sound, Accounted, Alive, Working
  <2>2. q \in Run
    BY <2>1 DEF Run
  <2>3. /\ q.stage = "ended" /\ q.cut /\ q.file = x.file
        /\ q.cost = x.cost /\ q.done = x.done /\ q.overAt = x.overAt /\ q.log = x.log
    BY <2>1 DEF Run
  <2> HIDE DEF q
  <2>4. Metering(q, budget) /\ Reported(q, scenario) /\ Progress(q, scenario)
    BY <2>1, <2>3 DEF Sound, Accounted, Metering, Reported, Progress, InSession
  <2> QED
    BY <2>2, <2>4 DEF Sound, Accounted, q
<1> HIDE DEF ended
<1>3. \A r \in RunId : run'[r] = IF Alive(r) THEN ended(run[r]) ELSE run[r]
  BY <1>1
<1>4. \A r \in RunId : Sound(run'[r], scenario, budget)
  BY <1>2, <1>3 DEF RunsSound
<1>5. \A r \in RunId : run'[r] \in Run
  BY <1>4 DEF Sound, Accounted
<1>6. run' \in [RunId -> Run]
  BY <1>1, <1>5
<1> QED
  BY <1>1, <1>4, <1>6 DEF RunsSound

(* A run that has not begun is sound.                                       *)
LEMMA RunsInit == EInit => RunsSound
<1> SUFFICES ASSUME EInit PROVE RunsSound
  OBVIOUS
<1>1. scenario \in Scenarios /\ budget \in Budgets /\ run = [r \in RunId |-> NotRun]
  BY DEF EInit, EvalRunInit
<1>2. NotRun \in Run
  BY DEF NotRun, Run, Working
<1>3. Progress(NotRun, scenario) /\ Reported(NotRun, scenario) /\ Metering(NotRun, budget)
  BY <1>1, BudgetFacts DEF NotRun, Progress, Reported, Metering, InSession
<1>4. Sound(NotRun, scenario, budget)
  BY <1>2, <1>3 DEF Sound, Accounted
<1> QED
  BY <1>1, <1>2, <1>4 DEF RunsSound

(* The runs of the server are all that changes them.                        *)
LEMMA RunsNext == RunsSound /\ [ENext]_runnerVars => RunsSound'
<1> SUFFICES ASSUME RunsSound, [ENext]_runnerVars PROVE RunsSound'
  OBVIOUS
<1>1. CASE Runs
  <2>1. PICK r \in RunId : Step(r)
    BY <1>1 DEF Runs, Serving
  <2> QED
    BY <2>1, BeginSound, SessionSound, PassesSound, CheckSound, EndSound, CleanUpSound DEF Step
<1>2. CASE Launch \/ CancelRun
  BY <1>2, RequestSound
<1>3. CASE Crash
  BY <1>3, CrashSound
<1>4. CASE UNCHANGED evalVars
  <2>1. scenario' = scenario /\ budget' = budget /\ run' = run
    BY <1>4 DEF evalVars
  <2> QED
    BY <2>1 DEF RunsSound
<1>5. Connect \/ Disconnect \/ Poll \/ Enter \/ Return \/ Lose \/ Gate \/ UNCHANGED runnerVars
        => UNCHANGED evalVars
  BY DEF Connect, Disconnect, Poll, Enter, Return, Lose, Gate, Repeating, runnerVars
<1> QED
  BY <1>1, <1>2, <1>3, <1>4, <1>5 DEF ENext

(* Every run is sound: how far it is, what it spent and what it reports     *)
(* belong together, through cancels, failures and crashes.                  *)
THEOREM RunsStaySound == ESpec => []RunsSound
BY RunsInit, RunsNext, PTL DEF ESpec

(* The cap stops a run: no session is consolidated after the one in which   *)
(* the cost passed it (MeteredLLM._tally).                                  *)
THEOREM BudgetStopsTheRun == ESpec => []CapStopsTheRun
<1>1. RunsSound => CapStopsTheRun
  BY DEF RunsSound, Sound, Accounted, Metering, CapStopsTheRun
<1> QED
  BY <1>1, RunsStaySound, PTL

(* Only the last line of a log with a verdict is one.                       *)
LEMMA VerdictIsLast ==
    ASSUME NEW l \in Seq(Quiet), NEW v \in Terminal
    PROVE  LET log == Append(l, v)
           IN  {i \in DOMAIN log : log[i] \in Terminal} = {Len(log)} /\ Last(log) = v
<1> DEFINE log == Append(l, v)
<1>1. /\ Len(l) \in Nat /\ Len(log) = Len(l) + 1 /\ DOMAIN log = 1..(Len(l) + 1)
      /\ log[Len(l) + 1] = v
  OBVIOUS
<1>2. \A i \in 1..Len(l) : log[i] = l[i] /\ l[i] \in Quiet
  OBVIOUS
<1>3. \A e \in Quiet : e \notin Terminal
  BY DEF Quiet, Terminal
<1> HIDE DEF log
<1>4. \A i \in DOMAIN log : log[i] \in Terminal <=> i = Len(l) + 1
  BY <1>1, <1>2, <1>3
<1>5. Len(l) + 1 \in DOMAIN log
  BY <1>1
<1>6. {i \in DOMAIN log : log[i] \in Terminal} = {Len(log)}
  BY <1>1, <1>4, <1>5
<1>7. Last(log) = v
  BY <1>1 DEF Last
<1> QED
  BY <1>6, <1>7 DEF log

(* A log without a verdict has none.                                        *)
LEMMA NoVerdict ==
    ASSUME NEW l \in Seq(Quiet)
    PROVE  {i \in DOMAIN l : l[i] \in Terminal} = {}
<1>1. \A i \in DOMAIN l : l[i] \in Quiet
  OBVIOUS
<1> QED
  BY <1>1 DEF Quiet, Terminal

(* What a run leaves behind is true: its file, its log and its verdict      *)
(* agree, and the verdict was earned (execute_run).                         *)
THEOREM ReportsAreHonest == ESpec => []ReportHonest
<1>1. ASSUME RunsSound PROVE ReportHonest
  <2> SUFFICES ASSUME NEW r \in RunId
               PROVE  LET x == run[r]
                          statuses == {i \in DOMAIN x.log : x.log[i] \in Terminal}
                      IN  /\ x.stage = "ended" /\ ~x.cut =>
                               /\ x.file = x.status /\ x.file \in Terminal
                               /\ statuses = {Len(x.log)} /\ Last(x.log) = x.status
                               /\ x.deleted => ~x.rows
                          /\ x.file \in {"passed", "failed"} =>
                               /\ x.done = scenario.sessions
                               /\ Len(x.results) = Len(scenario.checks)
                               /\ x.file = "passed" => \A i \in DOMAIN x.results : x.results[i]
                               /\ x.file = "passed" /\ Drain \in Range(scenario.checks)
                                    => ~x.pending
                          /\ x.file = "running" => statuses = {}
    BY DEF ReportHonest
  <2> DEFINE x == run[r]
  <2>1. Reported(x, scenario) /\ x.results \in Seq(BOOLEAN)
    BY <1>1 DEF RunsSound, Sound, Accounted, Run
  <2> HIDE DEF x
  <2>2. CASE /\ x.stage # "ended" \/ x.cut
             /\ x.file \in {"none", "running"} /\ x.log \in Seq(Quiet)
    BY <2>2, NoVerdict DEF x
  <2>3. CASE /\ x.stage = "ended" /\ x.file = x.status /\ x.file \in Terminal
             /\ Earned(x, x.file, scenario)
             /\ x.deleted => ~x.rows
             /\ \E l \in Seq(Quiet) : x.log = Append(l, x.file)
    <3>1. {i \in DOMAIN x.log : x.log[i] \in Terminal} = {Len(x.log)} /\ Last(x.log) = x.file
      BY <2>3, VerdictIsLast
    <3>2. x.file # "running"
      BY <2>3 DEF Terminal
    <3>3. x.file \in {"passed", "failed"} =>
            /\ x.done = scenario.sessions
            /\ Len(x.results) = Len(scenario.checks)
            /\ x.file = "passed" => \A i \in DOMAIN x.results : x.results[i]
            /\ x.file = "passed" /\ Drain \in Range(scenario.checks) => ~x.pending
      BY <2>1, <2>3 DEF Earned
    <3> QED
      BY <2>3, <3>1, <3>2, <3>3 DEF x
  <2> QED
    BY <2>1, <2>2, <2>3 DEF Reported
<1> QED
  BY <1>1, RunsStaySound, PTL

------------------------------------------------------------------------------
(* execute_many has of each run where it is, and the results of all checks  *)
(* of those that have a verdict; after the gate none goes on.               *)
Told(o) ==
    \/ o.status \in {"passed", "failed"} /\ o.results \in [DOMAIN scenario.checks -> BOOLEAN]
    \/ o.status \in {"waiting", "running", "error", "over_budget", "crashed"} /\ o.results = <<>>

GateInv ==
    /\ scenario \in Scenarios
    /\ DOMAIN outcome = 1..Sample /\ \A i \in 1..Sample : Told(outcome[i])
    /\ gated # "none" => In("waiting") \cup In("running") = {}
    /\ GateNeedsMajority

(* With checks asked for, the runs that count for the gate are the ones     *)
(* with a verdict; without, there are none.                                 *)
LEMMA ScoredHaveVerdicts ==
    ASSUME scenario \in Scenarios, DOMAIN outcome = 1..Sample,
           \A i \in 1..Sample : Told(outcome[i])
    PROVE  /\ Scored # {} => scenario.checks # <<>>
           /\ scenario.checks # <<>> =>
                Scored = {i \in 1..Sample : outcome[i].status \in {"passed", "failed"}}
<1> DEFINE n == Len(scenario.checks)
<1>1. n \in Nat /\ DOMAIN scenario.checks = 1..n
  BY ScenarioFacts
<1>2. scenario.checks \in Seq(Range(scenario.checks))
  BY EvalRunConstants DEF EvalRunConstants
<1>3. n = 0 <=> scenario.checks = <<>>
  BY <1>2
<1> HIDE DEF n
<1>4. ASSUME NEW o, Told(o), o.results # <<>>
      PROVE  o.status \in {"passed", "failed"} /\ n # 0
  <2>1. o.results \in [1..n -> BOOLEAN]
    BY <1>1, <1>4 DEF Told
  <2>2. o.results \in Seq(BOOLEAN) /\ Len(o.results) = n
    BY <1>1, <2>1
  <2> QED
    BY <1>4, <2>2 DEF Told
<1>5. ASSUME NEW o, Told(o), o.status \in {"passed", "failed"}, n # 0
      PROVE  o.results # <<>>
  <2>1. o.results \in [1..n -> BOOLEAN]
    BY <1>1, <1>5 DEF Told
  <2>2. o.results \in Seq(BOOLEAN) /\ Len(o.results) # 0
    BY <1>1, <1>5, <2>1
  <2> QED
    BY <2>2
<1>6. Scored # {} => scenario.checks # <<>>
  BY <1>3, <1>4 DEF Scored
<1>7. ASSUME n # 0
      PROVE  Scored = {i \in 1..Sample : outcome[i].status \in {"passed", "failed"}}
  BY <1>4, <1>5, <1>7 DEF Scored
<1> QED
  BY <1>3, <1>6, <1>7

(* A new outcome of one run keeps the rest.                                 *)
LEMMA OutcomeStep ==
    ASSUME GateInv, gated = "none", NEW i \in 1..Sample, NEW o, Told(o),
           Repeating(SetOutcome(i, o))
    PROVE  GateInv'
<1>1. /\ scenario' = scenario /\ gated' = gated
      /\ outcome' = [outcome EXCEPT ![i] = o]
  BY DEF Repeating, SetOutcome, evalVars
<1>2. \A j \in 1..Sample : outcome'[j] = IF j = i THEN o ELSE outcome[j]
  BY <1>1 DEF GateInv
<1>3. DOMAIN outcome' = 1..Sample
  BY <1>1 DEF GateInv
<1>4. \A j \in 1..Sample : Told(outcome[j])' 
  BY <1>1, <1>2 DEF GateInv, Told
<1> QED
  BY <1>1, <1>3, <1>4 DEF GateInv, GateNeedsMajority

(* The places of a check and the runs it passed in can be counted.          *)
LEMMA CountsFinite ==
    ASSUME scenario \in Scenarios, NEW name
    PROVE  IsFiniteSet(Times(name)) /\ IsFiniteSet(RunsPassing(name))
<1>1. IsFiniteSet(DOMAIN scenario.checks)
  <2>1. Len(scenario.checks) \in Nat /\ DOMAIN scenario.checks = 1..Len(scenario.checks)
    BY ScenarioFacts
  <2>2. IsFiniteSet(1..Len(scenario.checks))
    BY <2>1, FS_Interval
  <2> QED
    BY <2>1, <2>2
<1>2. IsFiniteSet(1..Sample)
  BY RunnerConstants, FS_Interval DEF RunnerConstants
<1>3. Times(name) \subseteq DOMAIN scenario.checks /\ RunsPassing(name) \subseteq 1..Sample
  BY DEF Times, RunsPassing
<1> QED
  BY <1>1, <1>2, <1>3, FS_Subset

(* A check is counted at most once per run that passed it and place it has. *)
LEMMA PassesBounded ==
    ASSUME scenario \in Scenarios, NEW name,
           Scored = {i \in 1..Sample : outcome[i].status \in {"passed", "failed"}}
    PROVE  /\ Passing(name) \in Nat
           /\ Passing(name) <= Cardinality(RunsPassing(name)) * Cardinality(Times(name))
<1> DEFINE V == {v \in Scored \X Times(name) : outcome[v[1]].results[v[2]]}
           P == RunsPassing(name) \X Times(name)
<1>1. V \subseteq P
  BY DEF RunsPassing
<1>2. IsFiniteSet(P) /\ Cardinality(P) = Cardinality(RunsPassing(name)) * Cardinality(Times(name))
  BY CountsFinite, FS_Product
<1>3. Passing(name) = Cardinality(V)
  BY DEF Passing
<1> HIDE DEF V, P
<1>4. IsFiniteSet(V) /\ Cardinality(V) <= Cardinality(P)
  BY <1>1, <1>2, FS_Subset
<1> QED
  BY <1>2, <1>3, <1>4, FS_CardinalityType

(* The gate counts runs with a verdict in which the check passed.           *)
LEMMA GateStep ==
    ASSUME GateInv, Gate
    PROVE  GateInv'
<1>1. /\ scenario' = scenario /\ outcome' = outcome
      /\ gated = "none" /\ In("waiting") \cup In("running") = {}
      /\ gated' = IF Scored # {} /\ \A name \in Range(scenario.checks) : GatePassed(name)
                  THEN "pass" ELSE "fail"
  BY DEF Gate, Repeating, evalVars
<1>2. GateNeedsMajority'
  <2> SUFFICES ASSUME gated' = "pass"
               PROVE  /\ scenario.checks # <<>>
                      /\ \A name \in Range(scenario.checks) :
                           2 * Cardinality(Times(name)) * Cardinality(RunsPassing(name)) > Sample
    BY <1>1 DEF GateNeedsMajority, Times, RunsPassing
  <2>1. Scored # {} /\ \A name \in Range(scenario.checks) : GatePassed(name)
    BY <1>1
  <2>2. scenario.checks # <<>>
        /\ Scored = {i \in 1..Sample : outcome[i].status \in {"passed", "failed"}}
    BY <2>1, ScoredHaveVerdicts DEF GateInv
  <2>3. ASSUME NEW name \in Range(scenario.checks)
        PROVE  2 * Cardinality(Times(name)) * Cardinality(RunsPassing(name)) > Sample
    <3>1. /\ Passing(name) * 2 > Sample /\ Passing(name) \in Nat
          /\ Passing(name) <= Cardinality(RunsPassing(name)) * Cardinality(Times(name))
      BY <2>1, <2>2, PassesBounded DEF GateInv, GatePassed
    <3>2. Cardinality(RunsPassing(name)) \in Nat /\ Cardinality(Times(name)) \in Nat
      BY CountsFinite, FS_CardinalityType DEF GateInv
    <3>3. \A m, k \in Nat : 2 * m * k = (k * m) * 2
      OBVIOUS
    <3> QED
      BY <3>1, <3>2, <3>3, RunnerConstants DEF RunnerConstants
  <2> QED
    BY <2>2, <2>3
<1>3. /\ DOMAIN outcome' = 1..Sample
      /\ \A i \in 1..Sample : Told(outcome[i])'
      /\ In("waiting")' \cup In("running")' = {}
  BY <1>1 DEF GateInv, Told, In
<1> QED
  BY <1>1, <1>2, <1>3 DEF GateInv

(* Before the first run every outcome is waiting.                           *)
LEMMA GateInit == EInit => GateInv
BY DEF EInit, EvalRunInit, GateInv, GateNeedsMajority, Told, Outcome

(* Outcomes come from their runs, and the gate from all of them.            *)
LEMMA GateNext == GateInv /\ [ENext]_runnerVars => GateInv'
<1> SUFFICES ASSUME GateInv, [ENext]_runnerVars PROVE GateInv'
  OBVIOUS
<1>1. CASE Enter
  <2>1. PICK i \in In("waiting") : Repeating(SetOutcome(i, Outcome("running", <<>>)))
    BY <1>1 DEF Enter
  <2>2. gated = "none" /\ i \in 1..Sample
    BY DEF GateInv, In
  <2>3. Told(Outcome("running", <<>>))
    BY DEF Told, Outcome
  <2> QED
    BY <2>1, <2>2, <2>3, OutcomeStep
<1>2. CASE Return
  <2>1. PICK i \in In("running") :
          \/ \E results \in {f \in [DOMAIN scenario.checks -> BOOLEAN] :
                                Range(scenario.checks) \subseteq Registered} :
                LET passed == \A k \in DOMAIN results : results[k]
                IN  Repeating(SetOutcome(i,
                        Outcome(IF passed THEN "passed" ELSE "failed", results)))
          \/ \E status \in {"error", "over_budget"} :
                Repeating(SetOutcome(i, Outcome(status, <<>>)))
    BY <1>2 DEF Return
  <2>2. gated = "none" /\ i \in 1..Sample
    BY DEF GateInv, In
  <2>3. ASSUME NEW results \in [DOMAIN scenario.checks -> BOOLEAN], NEW passed,
               Repeating(SetOutcome(i, Outcome(IF passed THEN "passed" ELSE "failed", results)))
        PROVE  GateInv'
    <3>1. Told(Outcome(IF passed THEN "passed" ELSE "failed", results))
      BY DEF Told, Outcome
    <3> QED
      BY <2>2, <2>3, <3>1, OutcomeStep
  <2>4. ASSUME NEW status \in {"error", "over_budget"},
               Repeating(SetOutcome(i, Outcome(status, <<>>)))
        PROVE  GateInv'
    <3>1. Told(Outcome(status, <<>>))
      BY DEF Told, Outcome
    <3> QED
      BY <2>2, <2>4, <3>1, OutcomeStep
  <2> QED
    BY <2>1, <2>3, <2>4
<1>3. CASE Lose
  <2>1. PICK i \in In("running") : Repeating(SetOutcome(i, Outcome("crashed", <<>>)))
    BY <1>3 DEF Lose
  <2>2. gated = "none" /\ i \in 1..Sample
    BY DEF GateInv, In
  <2>3. Told(Outcome("crashed", <<>>))
    BY DEF Told, Outcome
  <2> QED
    BY <2>1, <2>2, <2>3, OutcomeStep
<1>4. CASE Gate
  BY <1>4, GateStep
<1>5. CASE scenario' = scenario /\ UNCHANGED <<outcome, gated>>
  BY <1>5 DEF GateInv, GateNeedsMajority, Times, RunsPassing, Told, In
<1>6. ASSUME NEW r \in RunId, Step(r)
      PROVE  scenario' = scenario
  <2>1. \A y, n : SetRun(r, y) \/ Metered(r, n, y) => scenario' = scenario
    BY DEF SetRun, Metered
  <2>2. Begin(r) \/ Student(r) \/ Tutor(r) \/ Replay(r) \/ Extract(r) => scenario' = scenario
    BY <2>1 DEF Begin, Student, Tutor, Replay, Extract
  <2>3. Passes(r) \/ RunCheck(r) \/ Fail(r) \/ CleanUp(r) \/ Raise(r) => scenario' = scenario
    BY <2>1 DEF Passes, RunCheck, Fail, CleanUp, Raise
  <2>4. CASE Cancelled(r)
    <3>1. run[r].stage \in Working \cup {"created", "cleaning"}
      BY <2>4 DEF Cancelled, Alive
    <3>2. [run[r] EXCEPT !.cancel = FALSE].stage = run[r].stage
      OBVIOUS
    <3> QED
      BY <2>1, <2>4, <3>1, <3>2 DEF Cancelled, Working
  <2> QED
    BY <1>6, <2>2, <2>3, <2>4 DEF Step
<1>7. Runs \/ Launch \/ CancelRun \/ Crash \/ Connect \/ Disconnect \/ Poll \/ UNCHANGED runnerVars
        => scenario' = scenario /\ UNCHANGED <<outcome, gated>>
  BY <1>6 DEF Runs, Launch, CancelRun, Crash, Connect, Disconnect, Poll, Serving, SetRun,
     evalVars, runnerVars
<1> QED
  BY <1>1, <1>2, <1>3, <1>4, <1>5, <1>7 DEF ENext

(* For any number of runs and any list of checks the gate passes a check    *)
(* named once only with a majority of the runs asked for, whatever became   *)
(* of the others, and one named m times only with more than half of an m-th *)
(* of them (aggregate, gate).                                               *)
THEOREM GateTakesMajority == ESpec => []GateNeedsMajority
<1>1. GateInv => GateNeedsMajority
  BY DEF GateInv
<1> QED
  BY <1>1, GateInit, GateNext, PTL DEF ESpec
==============================================================================
