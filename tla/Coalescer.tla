------------------------------- MODULE Coalescer -------------------------------
(***************************************************************************)
(* What consolidate_soon promises: asking is free, the runs of one learner *)
(* never overlap, a burst of requests costs at most two runs, and no run   *)
(* starts that nobody asked for.                                           *)
(***************************************************************************)
EXTENDS Naturals

CONSTANT Learner

VARIABLES owed,      \* runs still to start: none, one, or one and a rerun
          running    \* runs under way

vars == <<owed, running>>

Init == owed = [l \in Learner |-> 0] /\ running = [l \in Learner |-> 0]

Ask(l) ==
    /\ owed' = [owed EXCEPT ![l] = IF running[l] = 1 \/ @ = 0 THEN 1 ELSE 2]
    /\ UNCHANGED running

Run(l) ==
    /\ owed[l] > 0 /\ running[l] = 0
    /\ owed' = [owed EXCEPT ![l] = @ - 1]
    /\ running' = [running EXCEPT ![l] = 1]

End(l) ==
    /\ running[l] = 1
    /\ running' = [running EXCEPT ![l] = 0]
    /\ UNCHANGED owed

(* The rerun begins in the step that ends the run.                          *)
Rerun(l) ==
    /\ owed[l] = 1 /\ running[l] = 1
    /\ owed' = [owed EXCEPT ![l] = 0]
    /\ UNCHANGED running

(* The host closes and forgets what it owes.                                *)
Forget ==
    /\ owed' = [l \in Learner |-> 0]
    /\ UNCHANGED running

Next == \/ \E l \in Learner : Ask(l) \/ Run(l) \/ End(l) \/ Rerun(l)
        \/ Forget

Spec == Init /\ [][Next]_vars
================================================================================
