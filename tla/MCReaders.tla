------------------------------ MODULE MCReaders ------------------------------
(* Four nodes: a hub with two neighbours beyond the fan-out, and one that a *)
(* consolidation may insert.  Texts are long enough for every budget to cut *)
(* somewhere else.                                                          *)
EXTENDS Readers, TLC

CONSTANTS h, m, n, o, c1, c2

MCLinks == {{h, m}, {h, n}}
MCDistance == h :> 0 @@ m :> 1 @@ n :> 2 @@ o :> 3
MCScore == h :> 2 @@ m :> 4 @@ n :> 3 @@ o :> 1
MCBlockLen == h :> 8 @@ m :> 4 @@ n :> 5 @@ o :> 4

(* A request does not look at the audit table, the feed at nothing else; no *)
(* write runs out of live nodes in MaxCommits transactions.                 *)
Looked ==
    <<events, now, call, turn, client,
      IF client = "feed" THEN <<audit, feedVars>> ELSE <<status, links, recallVars>>>>

Symmetric == Permutations({c1, c2})
===============================================================================
