---------------------------------- MODULE Voice ----------------------------------
(***************************************************************************)
(* A voice session: the client in the browser, the handler on the server,  *)
(* and the connection between them, which may fail at any time.            *)
(***************************************************************************)
EXTENDS VoiceClient, VoiceServer

vars == <<wire, client, server>>

VoiceTypeOK == WireTypeOK /\ ClientTypeOK /\ ServerTypeOK

Init == WireInit /\ ClientInit /\ ServerInit

Browser ==
    ClientReceive \/ ConnectionLost \/ ChunkRead \/ RecorderStopped \/ FileOver \/ PlayRejected

Next ==
    \/ (Student \/ Browser \/ ConnectionBreaks) /\ UNCHANGED server
    \/ ServerStep /\ UNCHANGED client

Spec == Init /\ [][Next]_vars

(* The handler's awaits return or raise, the browser runs its tasks, frames *)
(* arrive.  Nobody has to press a key, answer for the microphone or leave.  *)
FairSpec ==
    /\ Spec
    /\ WF_vars(ServerStep /\ UNCHANGED client)
    /\ WF_vars((ClientReceive \/ ConnectionLost) /\ UNCHANGED server)
    /\ WF_vars(ChunkRead /\ UNCHANGED server)
    /\ WF_vars(RecorderStopped /\ UNCHANGED server)

------------------------------------------------------------------------------
(* voice.ts, interrupt(): the gate is closed only against a turn the        *)
(* student interrupted.  The reply to a question asked after the last       *)
(* interrupt is never dropped, whatever was under way when it was asked.    *)
LiveReplyHeard ==
    discard /\ down # << >> /\ Head(down).kind = "audio" =>
        reply[Head(down).of] \in {"cut", "silenced"}

(* "Cancel the in-progress tutor reply immediately": once interrupted, a    *)
(* reply the client knew of is not heard again, however much of it is still *)
(* on the wire or on the server.                                            *)
SilencedStaysSilent ==
    \A t \in Press : reply[t] = "silenced" => sounding # t /\ t \notin ToSet(queue)

(* "so the server doesn't sit on an unflushed buffer": every release of the *)
(* key is followed by a turn of the server, audio or not, in whatever order *)
(* the recorder, the microphone prompt and the key came.                    *)
ReleaseAnswered ==
    \A t \in Press : reply[t] # "none" ~> t \in answered \/ conn # "open"

(* docs/DESIGN.md, "Primary - session end": once the client is gone the     *)
(* handler ends, also from the middle of a turn.                            *)
SessionEnds == conn # "open" ~> pc = "over"
================================================================================
