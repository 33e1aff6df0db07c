------------------------------ MODULE AuditFeed ------------------------------
(***************************************************************************)
(* GET /events/stream: one connection that polls the audit table for rows  *)
(* later than the last one it has sent, a page at a time.                  *)
(***************************************************************************)
EXTENDS LearnerStore

CONSTANT PageSize     \* the limit of get_audit

ASSUME PageSizeIsPositive == PageSize \in Nat \ {0}

VARIABLES cursor,     \* the timestamp of the last row sent
          sent,       \* the timestamps of the frames, in order
          cuts        \* history: where a page that was full ended

feedVars == <<cursor, sent, cuts>>

FeedInit == cursor = 0 /\ sent = <<>> /\ cuts = {}

(* The rows get_audit would return without a limit, by their timestamps:    *)
(* those of one transaction share it and come in any order.                 *)
Newer ==
    LET rows[k \in 0..(Len(audit) - cursor)] ==
            IF k = 0 THEN <<>>
            ELSE rows[k-1] \o [i \in 1..audit[cursor + k] |-> cursor + k]
    IN  rows[Len(audit) - cursor]

Page == SubSeq(Newer, 1, IF Len(Newer) < PageSize THEN Len(Newer) ELSE PageSize)

(* One turn of the stream's loop that finds rows.                           *)
Poll ==
    /\ Newer # <<>>
    /\ sent' = sent \o Page
    /\ cursor' = Last(Page)
    /\ cuts' = IF Len(Page) = PageSize THEN cuts \cup {Last(Page)} ELSE cuts

(* The feed sends rows in the order of their transactions, none twice, and  *)
(* passes over one only when a full page ended inside its transaction       *)
(* (events_stream): a row that becomes visible is never already behind the  *)
(* cursor, because the lock lets only one writer of the learner be between  *)
(* its timestamp and its commit.                                            *)
FeedLosesOnlySplitPages ==
    LET times(ts) == Cardinality({i \in DOMAIN sent : sent[i] = ts})
    IN  /\ \A i \in 1..Len(sent)-1 : sent[i] <= sent[i+1]
        /\ \A ts \in DOMAIN audit :
             /\ times(ts) <= audit[ts]
             /\ ts <= cursor /\ times(ts) < audit[ts] => ts \in cuts
===============================================================================
