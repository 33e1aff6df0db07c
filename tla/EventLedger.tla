----------------------------- MODULE EventLedger -----------------------------
(***************************************************************************)
(* What Engram promises about a learner's events, with no lock, no LLM and *)
(* no process in sight: an event is appended once (Engram.ingest), waits,  *)
(* and is at some point absorbed into its own learner's memory, together   *)
(* with the rest of a batch and exactly once.  A consolidation that fails, *)
(* is skipped or dies is a stuttering step here.                           *)
(***************************************************************************)
EXTENDS Naturals

CONSTANTS Event, Learner, OwnerOf

VARIABLES waiting,   \* appended, not absorbed yet
          absorbed,  \* absorbed into the memory
          effects    \* how often each event has had its effect on the memory

vars == <<waiting, absorbed, effects>>

Init == /\ waiting = {}
        /\ absorbed = {}
        /\ effects = [e \in Event |-> 0]

Append(S) ==
    /\ S \cap (waiting \cup absorbed) = {}
    /\ waiting' = waiting \cup S
    /\ UNCHANGED <<absorbed, effects>>

Absorb(l, S) ==
    /\ S \subseteq {e \in waiting : OwnerOf[e] = l}
    /\ waiting' = waiting \ S
    /\ absorbed' = absorbed \cup S
    /\ effects' = [e \in Event |-> IF e \in S THEN effects[e] + 1 ELSE effects[e]]

Next == \/ \E S \in SUBSET Event : Append(S)
        \/ \E l \in Learner, S \in SUBSET Event : Absorb(l, S)

Spec == Init /\ [][Next]_vars
==============================================================================
