------------------------------ MODULE VoiceServer ------------------------------
(***************************************************************************)
(* The handler of /voice (voice/routes.py) with VoicePipeline.run_turn: it *)
(* serves one turn at a time and reads nothing meanwhile, stores the turn  *)
(* and its events once the reply is out, and consolidates when the session *)
(* ends, however it ends.                                                  *)
(***************************************************************************)
EXTENDS VoiceWire

VARIABLES pc,           \* where the handler is
          buffer,       \* some audio came since the last start or end
          turn,         \* the turn being served
          files,        \* audio files sent for it
          userRows,     \* turns whose user text is in engram_voice_turns
          tutorRows,    \* turns whose reply is
          remembered,   \* turns whose two events were ingested
          answered      \* history: turns that run_turn finished

server == <<pc, buffer, turn, files, userRows, tutorRows, remembered, answered>>
tables == <<userRows, tutorRows, remembered>>

(* A reply is stored after the text it answers, its events after both.      *)
ServerTypeOK ==
    /\ pc \in {"listening", "transcribing", "speaking", "storing", "replying",
               "remembering", "ending", "consolidating", "over"}
    /\ buffer \in BOOLEAN
    /\ turn \in 0..MaxPress
    /\ files \in 0..MaxFiles
    /\ remembered \subseteq tutorRows /\ tutorRows \subseteq userRows
    /\ userRows \subseteq answered /\ answered \subseteq Press

ServerInit ==
    /\ pc = "listening" /\ buffer = FALSE /\ turn = 0 /\ files = 0
    /\ userRows = {} /\ tutorRows = {} /\ remembered = {} /\ answered = {}

(* Send and go on; a send on a dead connection may raise instead.           *)
SendThen(frames, next) ==
    \/ pc' = next /\ down' = IF alive THEN down \o frames ELSE down
    \/ ~alive /\ pc' = "ending" /\ UNCHANGED down

------------------------------------------------------------------------------
StartFrame ==
    /\ buffer' = FALSE
    /\ UNCHANGED <<pc, down, turn, files, answered>>

AudioFrame ==
    /\ buffer' = TRUE
    /\ UNCHANGED <<pc, down, turn, files, answered>>

(* run_turn begins; without audio there is no text and the turn is over.    *)
EndFrame(p) ==
    /\ buffer' = FALSE /\ turn' = p /\ files' = 0
    /\ \/ /\ buffer
          /\ SendThen(<<Down("busy", p)>>, "transcribing")
          /\ UNCHANGED answered
       \/ /\ ~buffer
          /\ SendThen(<<Down("busy", p), Down("idle", p)>>, "listening")
          /\ answered' = answered \cup {p}

Goodbye ==
    /\ pc' = "ending"
    /\ UNCHANGED <<down, buffer, turn, files, answered>>

ServerReceive ==
    /\ pc = "listening" /\ up # << >>
    /\ up' = Tail(up)
    /\ LET m == Head(up)
       IN  \/ m.kind = "start" /\ StartFrame
           \/ m.kind = "audio" /\ AudioFrame
           \/ m.kind = "end" /\ EndFrame(m.of)
           \/ m.kind = "goodbye" /\ Goodbye
    /\ UNCHANGED <<alive, tables>>

\* Slip: only a goodbye ends the session.
PeerGone_Ignored ==
    /\ pc = "listening" /\ up = << >> /\ ~alive
    /\ UNCHANGED <<wire, server>>

(* websocket.disconnect.                                                    *)
PeerGone ==
    /\ pc = "listening" /\ up = << >> /\ ~alive
    /\ pc' = "ending"
    /\ UNCHANGED <<wire, buffer, turn, files, tables, answered>>

(* STT: text, or silence.                                                   *)
Transcribed ==
    /\ pc = "transcribing"
    /\ \/ SendThen(<< >>, "speaking") /\ UNCHANGED answered
       \/ SendThen(<<Down("idle", turn)>>, "listening") /\ answered' = answered \cup {turn}
    /\ UNCHANGED <<up, alive, buffer, turn, files, tables>>

(* One sentence of the reply was synthesized.  A TTS failure sends nothing. *)
Speak ==
    /\ pc = "speaking" /\ files < MaxFiles
    /\ SendThen(<<Down("audio", turn)>>, "speaking")
    /\ files' = files + 1
    /\ UNCHANGED <<up, alive, buffer, turn, tables, answered>>

ReplyEnds ==
    /\ pc = "speaking"
    /\ SendThen(<<Down("idle", turn), Down("done", turn)>>, "storing")
    /\ answered' = answered \cup {turn}
    /\ UNCHANGED <<up, alive, buffer, turn, files, tables>>

(* append_voice_turn(user); a model that streamed nothing leaves no reply.  *)
StoreUser ==
    /\ pc = "storing"
    /\ userRows' = userRows \cup {turn}
    /\ \/ pc' = "replying"
       \/ files = 0 /\ pc' = "listening"
    /\ UNCHANGED <<wire, buffer, turn, files, tutorRows, remembered, answered>>

\* Slip: the events go first.
StoreReply_Later ==
    /\ pc = "replying"
    /\ remembered' = remembered \cup {turn}
    /\ pc' = "remembering"
    /\ UNCHANGED <<wire, buffer, turn, files, userRows, tutorRows, answered>>

StoreReply ==
    /\ pc = "replying"
    /\ tutorRows' = tutorRows \cup {turn}
    /\ pc' = "remembering"
    /\ UNCHANGED <<wire, buffer, turn, files, userRows, remembered, answered>>

\* Slip: "memory is best effort", so a failed ingest is swallowed.
Remember_BestEffort ==
    /\ pc = "remembering"
    /\ remembered' \in {remembered, remembered \cup {turn}}
    /\ pc' = "listening"
    /\ turn' = 0 /\ files' = 0
    /\ UNCHANGED <<wire, buffer, userRows, tutorRows, answered>>

(* Engram.ingest of the utterance and the explanation.                      *)
Remember ==
    /\ pc = "remembering"
    /\ remembered' = remembered \cup {turn}
    /\ pc' = "listening"
    /\ turn' = 0 /\ files' = 0
    /\ UNCHANGED <<wire, buffer, userRows, tutorRows, answered>>

(* STT, recall, the tutor model or the database raises.                     *)
ServerFails ==
    /\ pc \in {"transcribing", "speaking", "storing", "replying", "remembering"}
    /\ pc' = "ending"
    /\ UNCHANGED <<wire, buffer, turn, files, tables, answered>>

(* The finally block: end_voice_session, and unless that raises the         *)
(* consolidation, whose failure is swallowed; then the socket is closed.    *)
EndSession ==
    /\ pc = "ending"
    /\ \/ pc' = "consolidating" /\ UNCHANGED alive
       \/ pc' = "over" /\ alive' = FALSE
    /\ turn' = 0 /\ files' = 0 /\ buffer' = FALSE
    /\ UNCHANGED <<up, down, tables, answered>>

Consolidated ==
    /\ pc = "consolidating"
    /\ pc' = "over" /\ alive' = FALSE
    /\ UNCHANGED <<up, down, buffer, turn, files, tables, answered>>

ServerStep ==
    \/ ServerReceive \/ PeerGone \/ Transcribed \/ Speak \/ ReplyEnds
    \/ StoreUser \/ StoreReply \/ Remember \/ ServerFails
    \/ EndSession \/ Consolidated

------------------------------------------------------------------------------
(* What the tutor said in a session that goes on is in the memory as well   *)
(* as in the transcript: a turn is stored completely, or the session ends.  *)
MemoryMatchesTranscript ==
    pc \in {"listening", "transcribing", "speaking"} => remembered = tutorRows
================================================================================
