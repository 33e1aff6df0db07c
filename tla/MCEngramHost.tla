----------------------------- MODULE MCEngramHost -----------------------------
(* Two learners, one logged turn, and room for three tasks at a time.       *)
EXTENDS EngramHost, TLC

CONSTANTS a, b, m, s1, s2, s3

MCLearner == {a, b}
MCTurn    == {m}
MCSlot    == {s1, s2, s3}
================================================================================
