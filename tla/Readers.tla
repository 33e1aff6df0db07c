------------------------------- MODULE Readers -------------------------------
(***************************************************************************)
(* One learner's requests on the service: chat turns of the Tutor, which   *)
(* recall, stream a reply and ingest the turn; /recall, /graph and /add;   *)
(* the audit feed; and the consolidations and repairs that write meanwhile.*)
(***************************************************************************)
EXTENDS Recall, AuditFeed

VARIABLES turn,    \* the chat turn: [step, reply]
          client   \* who is connected: requests and the feed do not interact,
                   \* so a behaviour has the ones or the other

rvars == <<storeVars, recallVars, feedVars, turn, client>>

Silent == [step |-> "none", reply |-> FALSE]

RInit == StoreInit /\ RecallInit /\ FeedInit /\ turn = Silent
         /\ client \in {"requests", "feed"}

(* An answer leaves before anything else is committed.                      *)
Writing ==
    /\ read.step # "done" /\ Writers /\ Witness
    /\ UNCHANGED <<feedVars, turn>>

AddNote == Add /\ UNCHANGED <<recallVars, feedVars, turn>>

Feed == client = "feed" /\ Poll /\ UNCHANGED <<storeVars, recallVars, turn>>

(* POST /recall, GET /graph with and without a focus                        *)
Ask ==
    /\ client = "requests" /\ turn.step = "none"
    /\ \E kind \in {"recall", "graph", "focus"} : Begin(kind)
    /\ UNCHANGED <<feedVars, turn>>

Reading == ReadStep /\ UNCHANGED <<feedVars, turn>>

Answered == turn.step # "recall" /\ Reply /\ UNCHANGED <<feedVars, turn>>

------------------------------------------------------------------------------
TurnBegins ==
    /\ client = "requests" /\ turn.step = "none"
    /\ Begin("recall")
    /\ turn' = [step |-> "recall", reply |-> FALSE]
    /\ UNCHANGED feedVars

(* The context frame.                                                       *)
Context ==
    /\ turn.step = "recall" /\ turn' = [turn EXCEPT !.step = "reply"]
    /\ Reply /\ UNCHANGED feedVars

Delta ==
    /\ turn.step = "reply" /\ ~ turn.reply /\ turn' = [turn EXCEPT !.reply = TRUE]
    /\ UNCHANGED <<storeVars, recallVars, feedVars>>

(* The turn is stored whole, in one transaction; without a reply only the   *)
(* learner's half.                                                          *)
Save ==
    /\ turn.step = "reply"
    /\ Insert(IF turn.reply THEN <<"utterance", "tutor_explanation">> ELSE <<"utterance">>)
    /\ turn' = [turn EXCEPT !.step = "saved"]
    /\ UNCHANGED <<recallVars, feedVars>>

(* The saved and done frames.                                               *)
Finished == turn.step = "saved" /\ turn' = Silent /\ UNCHANGED <<storeVars, recallVars, feedVars>>

(* The client disconnects at a frame, or embedder, database or LLM raise:   *)
(* an error frame, and nothing is stored.                                   *)
TurnFails ==
    /\ turn.step \in {"recall", "reply"} /\ turn' = Silent
    /\ read' = Request("recall") /\ lived' = {} /\ linked' = {} /\ quiet' = FALSE
    /\ UNCHANGED <<storeVars, feedVars>>

Chat == TurnBegins \/ Context \/ Delta \/ Save \/ Finished \/ TurnFails

RNext ==
    /\ Writing \/ AddNote \/ Feed \/ Ask \/ Reading \/ Answered \/ Chat
    /\ UNCHANGED client

RSpec == RInit /\ [][RNext]_rvars
===============================================================================
