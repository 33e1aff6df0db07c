------------------------------ MODULE VoiceClient ------------------------------
(***************************************************************************)
(* web/src/voice: class VoiceSession and the hook useVoiceTutor around it. *)
(* Push to talk, barge-in, the microphone and the playback queue.  An      *)
(* action is one task of the browser's event loop.  The socket is open     *)
(* when the model begins.                                                  *)
(***************************************************************************)
EXTENDS VoiceWire

VARIABLES
    conn,       \* "open", "lost" (the socket closed), "left" (disconnect() was called)
    press,      \* presses so far
    holding,    \* holdingRef
    asking,     \* presses whose getUserMedia is unanswered
    stream,     \* mediaStream, named by the press that asked for it; 0 is null
    recorder,   \* mediaRecorder, named by the press that made it; 0 is null
    source,     \* the stream each MediaRecorder records from, 0 when inactive
    stopping,   \* recorders whose stop events are due, with the press just released
    reading,    \* audio chunks in Blob.arrayBuffer(), by recorder
    inTurn,     \* turnInProgress
    discard,    \* discardIncomingAudio
    queue,      \* pendingAudio: files, named by their turn
    playing,    \* the gate of the queue
    sounding,   \* the file in the audio element, 0 is none
    late,       \* a play() of an interrupted file has still to reject
    reply       \* history: each turn as the student has it

mic    == <<asking, stream, recorder, source, stopping, reading>>
player == <<inTurn, discard, queue, playing, sounding, late>>
client == <<conn, press, holding, mic, player, reply>>

(* reply: asked when the key is released, begun when the client has heard   *)
(* of it; an interrupt makes these cut and silenced.                        *)
ClientTypeOK ==
    /\ conn \in {"open", "lost", "left"}
    /\ press \in 0..MaxPress
    /\ holding \in BOOLEAN
    /\ asking \subseteq Press
    /\ stream \in 0..MaxPress /\ recorder \in 0..MaxPress
    /\ source \in [Press -> 0..MaxPress]
    /\ stopping \subseteq Press \X Press
    /\ reading \in Seq(Press)
    /\ inTurn \in BOOLEAN /\ discard \in BOOLEAN
    /\ queue \in Seq(Press)
    /\ playing \in BOOLEAN /\ sounding \in 0..MaxPress /\ late \in BOOLEAN
    /\ reply \in [Press -> {"none", "asked", "begun", "cut", "silenced"}]

ClientInit ==
    /\ conn = "open" /\ press = 0 /\ holding = FALSE
    /\ asking = {} /\ stream = 0 /\ recorder = 0
    /\ source = [p \in Press |-> 0] /\ stopping = {} /\ reading = << >>
    /\ inTurn = FALSE /\ discard = FALSE
    /\ queue = << >> /\ playing = FALSE /\ sounding = 0 /\ late = FALSE
    /\ reply = [p \in Press |-> "none"]

Send(frame) == up' = IF conn = "open" /\ alive THEN Append(up, frame) ELSE up

------------------------------------------------------------------------------
(* stopPlayback: pause, drop the source and the queue.  A play() that was   *)
(* still loading rejects in a later task.                                   *)
StopPlayback ==
    /\ queue' = << >> /\ playing' = FALSE /\ sounding' = 0
    /\ late' \in IF sounding = 0 THEN {late} ELSE {late, TRUE}

\* Slip: only the queue is dropped, the gate stays open.
Interrupt_NoGate ==
    /\ StopPlayback
    /\ UNCHANGED <<inTurn, discard>>
    /\ reply' = [t \in Press |-> CASE reply[t] = "asked" -> "cut"
                                   [] reply[t] = "begun" -> "silenced"
                                   [] OTHER -> reply[t]]

\* Slip: the gate closes whether or not a turn is in progress.
Interrupt_AlwaysGate ==
    /\ StopPlayback
    /\ discard' = TRUE
    /\ UNCHANGED inTurn
    /\ reply' = [t \in Press |-> CASE reply[t] = "asked" -> "cut"
                                   [] reply[t] = "begun" -> "silenced"
                                   [] OTHER -> reply[t]]

(* interrupt(): also close the gate if the client knows of a turn.          *)
Interrupt ==
    /\ StopPlayback
    /\ discard' = (discard \/ inTurn)
    /\ UNCHANGED inTurn
    /\ reply' = [t \in Press |-> CASE reply[t] = "asked" -> "cut"
                                   [] reply[t] = "begun" -> "silenced"
                                   [] OTHER -> reply[t]]

(* The end of startSpeaking: a new recorder on a stream, and `start`.       *)
Record(p, from) ==
    /\ recorder' = p
    /\ source' = [source EXCEPT ![p] = from]
    /\ Send(Up("start", 0, 0))

(* startHold: barge in, then startSpeaking, which does nothing while a      *)
(* recorder runs and needs the microphone first.                            *)
KeyDown ==
    /\ conn = "open" /\ ~holding /\ press < MaxPress
    /\ Interrupt
    /\ holding' = TRUE /\ press' = press + 1
    /\ \/ /\ recorder # 0 /\ source[recorder] # 0
          /\ UNCHANGED <<asking, recorder, source, up>>
       \/ /\ ~(recorder # 0 /\ source[recorder] # 0) /\ stream # 0
          /\ Record(press + 1, stream)
          /\ UNCHANGED asking
       \/ /\ ~(recorder # 0 /\ source[recorder] # 0) /\ stream = 0
          /\ asking' = asking \cup {press + 1}
          /\ UNCHANGED <<recorder, source, up>>
    /\ UNCHANGED <<conn, stream, stopping, reading, down, alive>>

(* The student allows the microphone, perhaps after releasing the key or    *)
(* leaving the page: startSpeaking goes on without looking.                 *)
MicGranted(p) ==
    /\ p \in asking
    /\ asking' = asking \ {p}
    /\ stream' = p
    /\ Record(p, p)
    /\ UNCHANGED <<conn, press, holding, stopping, reading, player, reply, down, alive>>

MicDenied(p) ==
    /\ p \in asking
    /\ asking' = asking \ {p}
    /\ holding' = FALSE
    /\ UNCHANGED <<conn, press, stream, recorder, source, stopping, reading, player, reply, wire>>

(* dataavailable, every 150 ms.  Bound: one such chunk under way at a time. *)
Chunk(r) ==
    /\ source[r] # 0 /\ conn = "open"
    /\ reading = << >> /\ \A i \in DOMAIN up : up[i].kind # "audio"
    /\ reading' = <<r>>
    /\ UNCHANGED <<conn, press, holding, asking, stream, recorder, source, stopping,
                   player, reply, wire>>

(* arrayBuffer() resolves.                                                  *)
ChunkRead ==
    /\ reading # << >>
    /\ reading' = Tail(reading)
    /\ Send(Up("audio", 0, Head(reading)))
    /\ UNCHANGED <<conn, press, holding, asking, stream, recorder, source, stopping,
                   player, reply, down, alive>>

\* Slip: without a recorder there is nothing to end.
KeyUp_NoEnd ==
    /\ conn # "left" /\ holding
    /\ holding' = FALSE
    /\ recorder' = 0
    /\ \/ /\ recorder # 0 /\ source[recorder] # 0
          /\ source' = [source EXCEPT ![recorder] = 0]
          /\ stopping' = stopping \cup {<<recorder, press>>}
       \/ /\ ~(recorder # 0 /\ source[recorder] # 0)
          /\ UNCHANGED <<source, stopping>>
    /\ reply' = [reply EXCEPT ![press] = "asked"]
    /\ UNCHANGED <<conn, press, asking, stream, reading, player, up, down, alive>>

(* endHold: stopSpeaking stops the recorder if one runs, and otherwise ends *)
(* the turn at once.                                                        *)
KeyUp ==
    /\ conn # "left" /\ holding
    /\ holding' = FALSE
    /\ recorder' = 0
    /\ \/ /\ recorder # 0 /\ source[recorder] # 0
          /\ source' = [source EXCEPT ![recorder] = 0]
          /\ stopping' = stopping \cup {<<recorder, press>>}
          /\ UNCHANGED up
       \/ /\ ~(recorder # 0 /\ source[recorder] # 0)
          /\ Send(Up("end", press, 0))
          /\ UNCHANGED <<source, stopping>>
    /\ reply' = [reply EXCEPT ![press] = "asked"]
    /\ UNCHANGED <<conn, press, asking, stream, reading, player, down, alive>>

(* One task: the final dataavailable, whose chunk is read asynchronously,   *)
(* and `stop`, whose listener sends `end`.                                  *)
RecorderStopped ==
    /\ \E s \in stopping :
        /\ stopping' = stopping \ {s}
        /\ reading' = IF conn = "open" THEN Append(reading, s[1]) ELSE reading
        /\ Send(Up("end", s[2], s[1]))
    /\ UNCHANGED <<conn, press, holding, asking, stream, recorder, source, player, reply, down, alive>>

(* Escape.                                                                  *)
Escape ==
    /\ conn # "left"
    /\ Interrupt
    /\ UNCHANGED <<conn, press, holding, mic, wire>>

(* The component unmounts.  Recorders end with the stream they record; what *)
(* they and the server still deliver finds no socket and changes nothing.   *)
Disconnect ==
    /\ conn # "left"
    /\ conn' = "left" /\ alive' = FALSE
    /\ Send(Up("goodbye", 0, 0))
    /\ StopPlayback
    /\ recorder' = 0 /\ stream' = 0
    /\ source' = [r \in Press |-> IF source[r] = stream \/ r = recorder THEN 0 ELSE source[r]]
    /\ stopping' = {} /\ reading' = << >> /\ down' = << >>
    /\ UNCHANGED <<press, holding, asking, inTurn, discard, reply>>

------------------------------------------------------------------------------
(* drainPlayback, with `q` queued and the gate free.                        *)
Drain(q) ==
    /\ queue' = IF q = << >> THEN q ELSE Tail(q)
    /\ sounding' = IF q = << >> THEN 0 ELSE Head(q)
    /\ playing' = (q # << >>)

BusyFrame(t) ==
    /\ inTurn' = TRUE
    /\ reply' = [reply EXCEPT ![t] = IF @ = "asked" THEN "begun" ELSE @]
    /\ UNCHANGED <<discard, queue, playing, sounding, late>>

(* status idle and turn_done.                                               *)
IdleFrame ==
    /\ inTurn' = FALSE /\ discard' = FALSE
    /\ UNCHANGED <<queue, playing, sounding, late, reply>>

FileFrame(t) ==
    /\ \/ discard /\ UNCHANGED <<queue, playing, sounding>>
       \/ ~discard /\ playing /\ queue' = Append(queue, t) /\ UNCHANGED <<playing, sounding>>
       \/ ~discard /\ ~playing /\ Drain(Append(queue, t))
    /\ UNCHANGED <<inTurn, discard, late, reply>>

ClientReceive ==
    /\ conn = "open" /\ down # << >>
    /\ down' = Tail(down)
    /\ LET m == Head(down)
       IN  \/ m.kind = "busy" /\ BusyFrame(m.of)
           \/ m.kind \in {"idle", "done"} /\ IdleFrame
           \/ m.kind = "audio" /\ FileFrame(m.of)
    /\ UNCHANGED <<conn, press, holding, mic, up, alive>>

(* The socket closes: after the last frame of a server that ended the      *)
(* session, or at any time when the network fails.  What the client sends   *)
(* before it notices reaches nobody.                                        *)
ConnectionLost ==
    /\ conn = "open" /\ ~alive /\ down = << >>
    /\ conn' = "lost"
    /\ stopping' = {} /\ reading' = << >>
    /\ UNCHANGED <<press, holding, asking, stream, recorder, source, player, reply, wire>>

ConnectionBreaks ==
    /\ conn = "open" /\ alive
    /\ conn' = "lost" /\ alive' = FALSE /\ down' = << >>
    /\ stopping' = {} /\ reading' = << >>
    /\ UNCHANGED <<press, holding, asking, stream, recorder, source, player, reply, up>>

(* `ended`, or `error`, which also rejects the file's play() if it was      *)
(* still loading, and so frees the gate the next file has just taken.       *)
FileOver ==
    /\ sounding # 0
    /\ queue' = IF queue = << >> THEN queue ELSE Tail(queue)
    /\ sounding' = IF queue = << >> THEN 0 ELSE Head(queue)
    /\ playing' \in {queue # << >>, FALSE}
    /\ UNCHANGED <<conn, press, holding, mic, inTurn, discard, late, reply, wire>>

(* play() rejects and frees the gate, of a file that may not start or that  *)
(* was interrupted while it was loading.                                    *)
PlayRejected ==
    /\ \/ sounding # 0 /\ sounding' = 0 /\ UNCHANGED late
       \/ late /\ late' = FALSE /\ UNCHANGED sounding
    /\ playing' = FALSE
    /\ UNCHANGED <<conn, press, holding, mic, inTurn, discard, queue, reply, wire>>

Student ==
    \/ KeyDown \/ KeyUp \/ Escape \/ Disconnect
    \/ \E p \in Press : MicGranted(p) \/ MicDenied(p) \/ Chunk(p)
================================================================================
