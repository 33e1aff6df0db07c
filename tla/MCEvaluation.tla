----------------------------- MODULE MCEvaluation -----------------------------
(* Frozen and generated scenarios of one or two sessions, with budgets that *)
(* are passed in a session, in the checks and not at all; one list names a  *)
(* check twice.  Four repetitions make a tie possible.                      *)
EXTENDS Evaluation, TLC

CONSTANTS r1, concepts, integrity, mistyped

MCScenarios ==
    {[frozen |-> TRUE, sessions |-> 2, checks |-> <<concepts, integrity>>],
     [frozen |-> FALSE, sessions |-> 1, checks |-> <<>>],
     [frozen |-> FALSE, sessions |-> 2, checks |-> <<integrity>>],
     [frozen |-> TRUE, sessions |-> 1, checks |-> <<mistyped>>],
     [frozen |-> TRUE, sessions |-> 1, checks |-> <<concepts, concepts>>]}
===============================================================================
