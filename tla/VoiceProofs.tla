------------------------------ MODULE VoiceProofs ------------------------------
(***************************************************************************)
(* The voice session for any number of presses and audio files: what the   *)
(* browser plays and drops after an interrupt, whatever is still on the    *)
(* wire, and what the server stores of each turn.                          *)
(***************************************************************************)
EXTENDS Voice, TLAPS

(* The turn the handler serves, and how far its rows have come.             *)
TurnServed ==
    /\ pc \in {"transcribing", "speaking", "storing", "replying", "remembering"} => turn \in Press
    /\ pc \in {"storing", "replying", "remembering"} => turn \in answered
    /\ pc = "replying" => turn \in userRows

(* The events lag the transcript by the turn being remembered, no other.    *)
RowsInStep ==
    /\ pc \in {"listening", "transcribing", "speaking", "storing", "replying"} => remembered = tutorRows
    /\ pc = "remembering" => tutorRows = remembered \cup {turn}

(* A press asks for its turn once, when the key is released.                *)
PressesAhead ==
    /\ holding => press \in Press /\ reply[press] = "none"
    /\ \A p \in Press : p > press => reply[p] = "none"

(* Not yet begun, as far as the client knows.                               *)
Unheard(t) == reply[t] \in {"asked", "cut"}

(* One `end` for each turn, and later one `busy`: due at a recorder, on its *)
(* way up, or on its way down.                                              *)
DueOnce ==
    \A s \in stopping : Unheard(s[2]) /\ \A r \in stopping : r[2] = s[2] => r = s

EndsOnce ==
    \A i \in DOMAIN up : up[i].kind = "end" =>
        /\ up[i].of \in Press /\ Unheard(up[i].of)
        /\ \A j \in DOMAIN up : up[j].kind = "end" /\ up[j].of = up[i].of => j = i
        /\ \A s \in stopping : s[2] # up[i].of

BusyOnce ==
    \A i \in DOMAIN down : down[i].kind = "busy" =>
        /\ Unheard(down[i].of)
        /\ \A j \in DOMAIN down : down[j].kind = "busy" /\ down[j].of = down[i].of => j = i
        /\ \A j \in DOMAIN up : up[j].kind = "end" => up[j].of # down[i].of
        /\ \A s \in stopping : s[2] # down[i].of

(* The frame before the i-th, g being the last one the client received.     *)
Before(g, i) == IF i = 1 THEN g ELSE down[i - 1]

(* Frames of a turn follow its `busy`, and a turn begins after the last.    *)
FramesInOrder(g) ==
    \A i \in DOMAIN down :
        /\ down[i].kind = "audio" => /\ Before(g, i).kind \in {"busy", "audio"}
                                     /\ Before(g, i).of = down[i].of
        /\ down[i].kind = "busy" => Before(g, i).kind \in {"idle", "done"}

(* The server goes on where its frames end.                                 *)
ServerAhead(g) ==
    LET b == Before(g, Len(down) + 1)
    IN  alive => /\ pc \in {"transcribing", "speaking"} => b.kind \in {"busy", "audio"} /\ b.of = turn
                 /\ pc \in {"listening", "storing", "replying", "remembering"} => b.kind \in {"idle", "done"}

(* The client is where its last frame put it, its gate closed exactly on a  *)
(* turn the student interrupted.                                            *)
ClientBehind(g) ==
    /\ inTurn <=> g.kind \in {"busy", "audio"}
    /\ inTurn => g.of \in Press /\ reply[g.of] \in {"begun", "cut", "silenced"}
    /\ discard => inTurn /\ reply[g.of] # "begun"
    /\ inTurn /\ reply[g.of] = "silenced" => discard

Received == [kind: {"busy", "idle", "done", "audio"}, of: 0..MaxPress]

InStep(g) == FramesInOrder(g) /\ ServerAhead(g) /\ ClientBehind(g)

VInv == /\ VoiceTypeOK /\ TurnServed /\ RowsInStep /\ PressesAhead
        /\ DueOnce /\ EndsOnce /\ BusyOnce
        /\ \E g \in Received : InStep(g)
        /\ SilencedStaysSilent

------------------------------------------------------------------------------
(* A new session has asked nothing and owes nothing.                        *)
LEMMA InitVInv == Init => VInv
<1> SUFFICES ASSUME Init PROVE VInv
  OBVIOUS
<1> USE WireAssumption DEF Init, WireInit, ClientInit, ServerInit
<1>0. 0 \in 0..MaxPress /\ 0 \in 0..MaxFiles
  OBVIOUS
<1>1. WireTypeOK /\ ClientTypeOK
  <2>1. /\ up \in Seq(UpFrame) /\ down \in Seq(DownFrame)
        /\ reading \in Seq(Press) /\ queue \in Seq(Press)
    OBVIOUS
  <2>2. source \in [Press -> 0..MaxPress]
    BY <1>0
  <2>3. reply \in [Press -> {"none", "asked", "begun", "cut", "silenced"}]
    OBVIOUS
  <2> QED
    BY <1>0, <2>1, <2>2, <2>3 DEF WireTypeOK, ClientTypeOK
<1>2. ServerTypeOK
  BY <1>0 DEF ServerTypeOK
<1>3. TurnServed /\ RowsInStep /\ PressesAhead
  BY DEF TurnServed, RowsInStep, PressesAhead
<1>4. DueOnce /\ EndsOnce /\ BusyOnce
  BY DEF DueOnce, EndsOnce, BusyOnce
<1>5. \E g \in Received : InStep(g)
  <2> DEFINE g == [kind |-> "idle", of |-> 0]
  <2>1. g \in Received
    BY DEF Received
  <2>2. g.kind = "idle"
    OBVIOUS
  <2> HIDE DEF g
  <2>3. InStep(g)
    BY <2>2 DEF InStep, FramesInOrder, ServerAhead, ClientBehind, Before
  <2> QED
    BY <2>1, <2>3
<1>6. SilencedStaysSilent
  BY DEF SilencedStaysSilent, ToSet
<1> QED
  BY <1>1, <1>2, <1>3, <1>4, <1>5, <1>6 DEF VInv, VoiceTypeOK

(* Frames the client sends.                                                 *)
LEMMA UpType ==
    ASSUME NEW kind \in {"start", "audio", "end", "goodbye"}, NEW p \in 0..MaxPress, NEW r \in 0..MaxPress
    PROVE  Up(kind, p, r) \in UpFrame /\ Up(kind, p, r).kind = kind /\ Up(kind, p, r).of = p
  BY DEF Up, UpFrame

(* A frame is sent or, when the socket is gone, lost.                       *)
LEMMA SendType ==
    ASSUME WireTypeOK, NEW f \in UpFrame, Send(f)
    PROVE  up' \in Seq(UpFrame) /\ (up' = up \/ up' = Append(up, f))
  BY DEF Send, WireTypeOK

(* The frames on the wire.                                                  *)
LEMMA FramesTyped ==
    ASSUME WireTypeOK
    PROVE  /\ up \in Seq(UpFrame) /\ DOMAIN up = 1..Len(up) /\ \A i \in DOMAIN up : up[i] \in UpFrame
           /\ down \in Seq(DownFrame) /\ DOMAIN down = 1..Len(down)
           /\ \A i \in DOMAIN down : down[i] \in DownFrame /\ down[i].of \in Press
<1>1. up \in Seq(UpFrame) /\ down \in Seq(DownFrame)
  BY DEF WireTypeOK
<1>2. \A i \in DOMAIN down : down[i] \in DownFrame
  BY <1>1
<1>3. \A i \in DOMAIN up : up[i] \in UpFrame
  BY <1>1
<1>4. \A f \in DownFrame : f.of \in Press
  BY DEF DownFrame
<1> QED
  BY <1>1, <1>2, <1>3, <1>4

(* A step that asks for no turn leaves none asked for twice.                *)
LEMMA OnceStays ==
    ASSUME VInv, down' = down \/ down' = << >>, stopping' \subseteq stopping,
           \A t \in Press : Unheard(t) => Unheard(t)',
           up' = up \/ \E f \in UpFrame : f.kind # "end" /\ up' = Append(up, f)
    PROVE  DueOnce' /\ EndsOnce' /\ BusyOnce'
<1> USE DEF VInv, VoiceTypeOK
<1>0. \A s \in stopping : s[2] \in Press
  BY DEF ClientTypeOK
<1>1. \A i \in DOMAIN up' : up'[i].kind = "end" => i \in DOMAIN up /\ up'[i] = up[i]
  <2>1. CASE up' = up
    BY <2>1
  <2>2. CASE \E f \in UpFrame : f.kind # "end" /\ up' = Append(up, f)
    BY <2>2 DEF WireTypeOK
  <2> QED
    BY <2>1, <2>2
<1>2. \A i \in DOMAIN down' : i \in DOMAIN down /\ down'[i] = down[i]
  OBVIOUS
<1>3. \A i \in DOMAIN down : down[i].of \in Press
  BY FramesTyped
<1>4. DueOnce'
  BY <1>0 DEF DueOnce
<1>5. EndsOnce'
  BY <1>1 DEF EndsOnce
<1>6. BusyOnce'
  BY <1>1, <1>2, <1>3 DEF BusyOnce
<1> QED
  BY <1>4, <1>5, <1>6

(* An interrupt cuts what was asked and silences what has begun.            *)
LEMMA InterruptType ==
    ASSUME ClientTypeOK, Interrupt
    PROVE  /\ queue' = << >> /\ queue' \in Seq(Press) /\ playing' = FALSE /\ sounding' = 0
           /\ late' \in BOOLEAN /\ discard' = (discard \/ inTurn) /\ inTurn' = inTurn
           /\ reply' \in [Press -> {"none", "asked", "begun", "cut", "silenced"}]
           /\ \A t \in Press :
                 /\ reply[t] = "none" => reply'[t] = "none"
                 /\ reply[t] = "asked" => reply'[t] = "cut"
                 /\ reply[t] = "begun" => reply'[t] = "silenced"
                 /\ reply[t] \in {"cut", "silenced"} => reply'[t] = reply[t]
<1>1. /\ queue' = << >> /\ playing' = FALSE /\ sounding' = 0
      /\ discard' = (discard \/ inTurn) /\ inTurn' = inTurn
      /\ late' \in IF sounding = 0 THEN {late} ELSE {late, TRUE}
  BY DEF Interrupt, StopPlayback
<1>2. late' \in BOOLEAN
  BY <1>1 DEF ClientTypeOK
<1>3. reply' = [t \in Press |-> CASE reply[t] = "asked" -> "cut"
                                  [] reply[t] = "begun" -> "silenced"
                                  [] OTHER -> reply[t]]
  BY DEF Interrupt
<1>4. \A t \in Press : reply[t] \in {"none", "asked", "begun", "cut", "silenced"}
  BY DEF ClientTypeOK
<1>5. \A t \in Press :
          /\ reply[t] = "asked" => reply'[t] = "cut"
          /\ reply[t] = "begun" => reply'[t] = "silenced"
          /\ reply[t] \in {"none", "cut", "silenced"} => reply'[t] = reply[t]
  BY <1>3
<1>6. reply' \in [Press -> {"none", "asked", "begun", "cut", "silenced"}]
  BY <1>3, <1>4, <1>5
<1> QED
  BY <1>1, <1>2, <1>5, <1>6

(* A step that receives and sends nothing the client listens to.            *)
LEMMA InStepStays ==
    ASSUME VInv, UNCHANGED <<pc, turn, inTurn>>,
           \/ down' = down /\ (alive' => alive)
           \/ down' = << >> /\ ~alive',
           \/ Interrupt
           \/ /\ discard' = discard
              /\ \A t \in Press : reply[t] \in {"begun", "cut", "silenced"} => reply'[t] = reply[t]
    PROVE  \E g \in Received : InStep(g)'
<1>1. PICK g \in Received : InStep(g)
  BY DEF VInv
<1>2. FramesInOrder(g)' /\ ServerAhead(g)'
  <2>1. CASE down' = down /\ (alive' => alive)
    BY <1>1, <2>1 DEF InStep, FramesInOrder, ServerAhead, Before
  <2>2. CASE down' = << >> /\ ~alive'
    BY <2>2 DEF FramesInOrder, ServerAhead
  <2> QED
    BY <2>1, <2>2
<1>3. ClientBehind(g)'
  <2>1. CASE Interrupt
    <3>1. /\ discard' <=> (discard \/ inTurn)
          /\ inTurn' <=> inTurn
          /\ \A t \in Press :
                 /\ reply[t] = "begun" => reply'[t] = "silenced"
                 /\ reply[t] \in {"cut", "silenced"} => reply'[t] = reply[t]
      BY <2>1, InterruptType DEF VInv, VoiceTypeOK
    <3> QED
      BY <1>1, <3>1 DEF InStep, ClientBehind
  <2>2. CASE /\ discard' = discard
             /\ \A t \in Press : reply[t] \in {"begun", "cut", "silenced"} => reply'[t] = reply[t]
    BY <1>1, <2>2 DEF InStep, ClientBehind
  <2> QED
    BY <2>1, <2>2
<1> QED
  BY <1>1, <1>2, <1>3 DEF InStep

(* Nothing that is silenced is in the player, if nothing new is.            *)
LEMMA SilenceStays ==
    ASSUME VInv, queue' = queue \/ queue' = << >>, sounding' \in {0, sounding},
           \A t \in Press : reply'[t] = "silenced" => reply[t] = "silenced" \/ (queue' = << >> /\ sounding' = 0)
    PROVE  SilencedStaysSilent'
<1>1. \A t \in Press : t # 0
  BY DEF Press
<1> QED
  BY <1>1 DEF VInv, SilencedStaysSilent, ToSet

(* What the server keeps is untouched by a step of the browser.             *)
LEMMA ServerStays ==
    ASSUME VInv, UNCHANGED server
    PROVE  ServerTypeOK' /\ TurnServed' /\ RowsInStep' /\ UNCHANGED <<pc, turn>>
  BY DEF VInv, VoiceTypeOK, server, ServerTypeOK, TurnServed, RowsInStep

(* A frame that is no `end`, sent or lost.                                  *)
LEMMA SendOther ==
    ASSUME VInv, NEW kind \in {"start", "audio", "goodbye"}, NEW r \in 0..MaxPress,
           Send(Up(kind, 0, r)), UNCHANGED down, alive' \in BOOLEAN
    PROVE  /\ WireTypeOK'
           /\ up' = up \/ \E f \in UpFrame : f.kind # "end" /\ up' = Append(up, f)
<1>1. 0 \in 0..MaxPress
  BY WireAssumption
<1>2. Up(kind, 0, r) \in UpFrame /\ Up(kind, 0, r).kind = kind
  BY <1>1, UpType
<1>3. up' \in Seq(UpFrame) /\ (up' = up \/ up' = Append(up, Up(kind, 0, r)))
  BY <1>2, SendType DEF VInv, VoiceTypeOK
<1> QED
  BY <1>2, <1>3 DEF WireTypeOK, VInv, VoiceTypeOK

(* Pressing the key interrupts what is heard and asks a new turn            *)
(* (startHold).                                                             *)
LEMMA KeyDownStep ==
    ASSUME VInv, KeyDown, UNCHANGED server
    PROVE  VInv'
<1> USE DEF VInv, VoiceTypeOK
<1>1. /\ ~holding /\ press < MaxPress /\ Interrupt /\ holding' = TRUE /\ press' = press + 1
      /\ UNCHANGED <<conn, stream, stopping, reading, down, alive>>
  BY DEF KeyDown
<1>2. press + 1 \in Press /\ press + 1 \in 0..MaxPress /\ 0 \in 0..MaxPress /\ \A p \in Press : p \in 0..MaxPress
  BY <1>1, WireAssumption DEF ClientTypeOK, Press
<1>3. /\ asking' \subseteq Press /\ recorder' \in 0..MaxPress /\ source' \in [Press -> 0..MaxPress]
      /\ up' = up \/ Send(Up("start", 0, 0))
  BY <1>1, <1>2 DEF KeyDown, Record, ClientTypeOK
<1>4. WireTypeOK' /\ (up' = up \/ \E f \in UpFrame : f.kind # "end" /\ up' = Append(up, f))
  BY <1>1, <1>2, <1>3, SendOther DEF WireTypeOK
<1>5. ClientTypeOK'
  BY <1>1, <1>2, <1>3, InterruptType DEF ClientTypeOK
<1>6. PressesAhead'
  <2>1. \A p \in Press : p \in 1..MaxPress
    BY DEF Press
  <2>2. \A p \in Press : p > press => reply'[p] = "none"
    BY <1>1, InterruptType DEF PressesAhead
  <2> QED
    BY <1>1, <1>2, <2>1, <2>2 DEF PressesAhead, ClientTypeOK
<1>7. DueOnce' /\ EndsOnce' /\ BusyOnce'
  BY <1>1, <1>4, InterruptType, OnceStays DEF Unheard
<1>8. \E g \in Received : InStep(g)'
  BY <1>1, InterruptType, ServerStays, InStepStays
<1>9. SilencedStaysSilent'
  BY <1>1, InterruptType, SilenceStays
<1> QED
  BY <1>4, <1>5, <1>6, <1>7, <1>8, <1>9, ServerStays

(* Escape interrupts and asks nothing (cancelPlayback).                     *)
LEMMA EscapeStep ==
    ASSUME VInv, Escape, UNCHANGED server
    PROVE  VInv'
<1> USE DEF VInv, VoiceTypeOK
<1>1. /\ Interrupt
      /\ UNCHANGED <<conn, press, holding, asking, stream, recorder, source, stopping, reading, up, down, alive>>
  BY DEF Escape, mic, wire
<1>2. WireTypeOK'
  BY <1>1 DEF WireTypeOK
<1>3. ClientTypeOK'
  <2>1. /\ queue' \in Seq(Press) /\ playing' = FALSE /\ sounding' = 0 /\ late' \in BOOLEAN
        /\ discard' \in BOOLEAN /\ inTurn' = inTurn
        /\ reply' \in [Press -> {"none", "asked", "begun", "cut", "silenced"}]
    BY <1>1, InterruptType
  <2>2. 0 \in 0..MaxPress
    BY WireAssumption
  <2> QED
    BY <1>1, <2>1, <2>2 DEF ClientTypeOK
<1>4. PressesAhead'
  BY <1>1, InterruptType DEF PressesAhead
<1>5. DueOnce' /\ EndsOnce' /\ BusyOnce'
  BY <1>1, InterruptType, OnceStays DEF Unheard
<1>6. \E g \in Received : InStep(g)'
  BY <1>1, InterruptType, ServerStays, InStepStays
<1>7. SilencedStaysSilent'
  BY <1>1, InterruptType, SilenceStays
<1> QED
  BY <1>2, <1>3, <1>4, <1>5, <1>6, <1>7, ServerStays

(* A client step after which every reply is what it was.                    *)
LEMMA RepliesStay ==
    ASSUME VInv, UNCHANGED server, UNCHANGED <<press, reply, inTurn, discard>>,
           WireTypeOK', ClientTypeOK',
           holding' => holding,
           \/ down' = down /\ (alive' => alive)
           \/ down' = << >> /\ ~alive',
           stopping' \subseteq stopping,
           up' = up \/ \E f \in UpFrame : f.kind # "end" /\ up' = Append(up, f)
    PROVE  SilencedStaysSilent' => VInv'
<1> USE DEF VInv, VoiceTypeOK
<1>1. PressesAhead'
  BY DEF PressesAhead
<1>2. \A t \in Press : Unheard(t) => Unheard(t)'
  BY DEF Unheard
<1>3. DueOnce' /\ EndsOnce' /\ BusyOnce'
  BY <1>2, OnceStays
<1>4. \E g \in Received : InStep(g)'
  BY ServerStays, InStepStays
<1> QED
  BY <1>1, <1>3, <1>4, ServerStays

(* The microphone's answer and the recorder's chunks.                       *)
LEMMA MicSteps ==
    ASSUME VInv, UNCHANGED server, NEW p \in Press, MicGranted(p) \/ MicDenied(p) \/ Chunk(p)
    PROVE  VInv'
<1> USE DEF VInv, VoiceTypeOK
<1>0. 0 \in 0..MaxPress /\ \A q \in Press : q \in 0..MaxPress
  BY WireAssumption DEF Press
<1>1. CASE MicGranted(p)
  <2>1. /\ asking' = asking \ {p} /\ stream' = p /\ recorder' = p
        /\ source' = [source EXCEPT ![p] = p] /\ Send(Up("start", 0, 0))
        /\ UNCHANGED <<conn, press, holding, stopping, reading, player, reply, down, alive>>
    BY <1>1 DEF MicGranted, Record
  <2>2. /\ WireTypeOK'
        /\ up' = up \/ \E f \in UpFrame : f.kind # "end" /\ up' = Append(up, f)
    BY <1>0, <2>1, SendOther DEF WireTypeOK
  <2>3. ClientTypeOK'
    BY <1>0, <2>1 DEF ClientTypeOK, player
  <2>4. SilencedStaysSilent'
    BY <2>1 DEF SilencedStaysSilent, player
  <2> QED
    BY <2>1, <2>2, <2>3, <2>4, RepliesStay DEF player
<1>2. CASE MicDenied(p)
  <2>1. /\ asking' = asking \ {p} /\ holding' = FALSE
        /\ UNCHANGED <<conn, press, stream, recorder, source, stopping, reading, player, reply, up, down, alive>>
    BY <1>2 DEF MicDenied, wire
  <2>2. ClientTypeOK' /\ WireTypeOK' /\ SilencedStaysSilent'
    BY <2>1 DEF ClientTypeOK, WireTypeOK, SilencedStaysSilent, player
  <2> QED
    BY <2>1, <2>2, RepliesStay DEF player
<1>3. CASE Chunk(p)
  <2>1. /\ reading' = <<p>>
        /\ UNCHANGED <<conn, press, holding, asking, stream, recorder, source, stopping, player, reply, up, down, alive>>
    BY <1>3 DEF Chunk, wire
  <2>2. reading' \in Seq(Press)
    BY <2>1
  <2>3. ClientTypeOK' /\ WireTypeOK' /\ SilencedStaysSilent'
    BY <2>1, <2>2 DEF ClientTypeOK, WireTypeOK, SilencedStaysSilent, player
  <2> QED
    BY <2>1, <2>3, RepliesStay DEF player
<1> QED
  BY <1>1, <1>2, <1>3

(* A chunk that was read is sent as audio, at any later time.               *)
LEMMA ChunkReadStep ==
    ASSUME VInv, UNCHANGED server, ChunkRead
    PROVE  VInv'
<1> USE DEF VInv, VoiceTypeOK
<1>1. /\ reading # << >> /\ reading' = Tail(reading) /\ Send(Up("audio", 0, Head(reading)))
      /\ UNCHANGED <<conn, press, holding, asking, stream, recorder, source, stopping, player, reply, down, alive>>
  BY DEF ChunkRead
<1>2. reading' \in Seq(Press) /\ Head(reading) \in Press
  BY <1>1 DEF ClientTypeOK
<1>3. Head(reading) \in 0..MaxPress
  BY <1>2, WireAssumption DEF Press
<1>4. /\ WireTypeOK'
      /\ up' = up \/ \E f \in UpFrame : f.kind # "end" /\ up' = Append(up, f)
  BY <1>1, <1>3, SendOther DEF WireTypeOK
<1>5. ClientTypeOK' /\ SilencedStaysSilent'
  BY <1>1, <1>2 DEF ClientTypeOK, SilencedStaysSilent, player
<1> QED
  BY <1>1, <1>4, <1>5, RepliesStay DEF player

(* The connection goes: the student leaves, or it closes, or breaks.        *)
LEMMA ConnectionSteps ==
    ASSUME VInv, UNCHANGED server, Disconnect \/ ConnectionLost \/ ConnectionBreaks
    PROVE  VInv'
<1> USE DEF VInv, VoiceTypeOK
<1>0. 0 \in 0..MaxPress /\ << >> \in Seq(Press) /\ << >> \in Seq(DownFrame)
  BY WireAssumption
<1>1. CASE Disconnect
  <2>1. /\ conn' = "left" /\ alive' = FALSE /\ Send(Up("goodbye", 0, 0)) /\ StopPlayback
        /\ recorder' = 0 /\ stream' = 0
        /\ source' = [r \in Press |-> IF source[r] = stream \/ r = recorder THEN 0 ELSE source[r]]
        /\ stopping' = {} /\ reading' = << >> /\ down' = << >>
        /\ UNCHANGED <<press, holding, asking, inTurn, discard, reply>>
    BY <1>1 DEF Disconnect
  <2>2. /\ queue' = << >> /\ playing' = FALSE /\ sounding' = 0
        /\ late' \in BOOLEAN
    BY <2>1 DEF StopPlayback, ClientTypeOK
  <2>3. Up("goodbye", 0, 0) \in UpFrame /\ Up("goodbye", 0, 0).kind # "end"
    BY <1>0, UpType
  <2>4. up' \in Seq(UpFrame) /\ (up' = up \/ \E f \in UpFrame : f.kind # "end" /\ up' = Append(up, f))
    BY <2>1, <2>3, SendType
  <2>5. WireTypeOK'
    BY <1>0, <2>1, <2>4 DEF WireTypeOK
  <2>6. source' \in [Press -> 0..MaxPress]
    BY <1>0, <2>1 DEF ClientTypeOK
  <2>7. ClientTypeOK'
    BY <1>0, <2>1, <2>2, <2>6 DEF ClientTypeOK
  <2>8. SilencedStaysSilent'
    BY <2>1, <2>2, SilenceStays
  <2> QED
    BY <2>1, <2>4, <2>5, <2>7, <2>8, RepliesStay
<1>2. CASE ConnectionLost \/ ConnectionBreaks
  <2>1. /\ conn' = "lost" /\ stopping' = {} /\ reading' = << >>
        /\ UNCHANGED <<press, holding, asking, stream, recorder, source, player, reply, up>>
        /\ \/ down' = down /\ alive' = alive
           \/ down' = << >> /\ alive' = FALSE
    BY <1>2 DEF ConnectionLost, ConnectionBreaks, wire
  <2>2. ClientTypeOK' /\ WireTypeOK' /\ SilencedStaysSilent'
    BY <1>0, <2>1 DEF ClientTypeOK, WireTypeOK, SilencedStaysSilent, player
  <2> QED
    BY <2>1, <2>2, RepliesStay DEF player
<1> QED
  BY <1>1, <1>2

(* The player goes to the next file, or gives one up.                       *)
LEMMA PlayerSteps ==
    ASSUME VInv, UNCHANGED server, FileOver \/ PlayRejected
    PROVE  VInv'
<1> USE DEF VInv, VoiceTypeOK
<1>0. 0 \in 0..MaxPress /\ \A p \in Press : p \in 0..MaxPress /\ p # 0
  BY WireAssumption DEF Press
<1>1. /\ UNCHANGED <<conn, press, holding, asking, stream, recorder, source, stopping, reading,
                     inTurn, discard, reply, up, down, alive>>
      /\ \/ queue' = queue /\ sounding' \in {0, sounding}
         \/ queue # << >> /\ queue' = Tail(queue) /\ sounding' = Head(queue)
      /\ playing' \in BOOLEAN /\ late' \in BOOLEAN
  BY DEF FileOver, PlayRejected, mic, wire, ClientTypeOK
<1>2. /\ queue' \in Seq(Press) /\ sounding' \in 0..MaxPress
      /\ ToSet(queue') \subseteq ToSet(queue) /\ sounding' \in {0, sounding} \cup ToSet(queue)
  <2>1. CASE queue' = queue /\ sounding' \in {0, sounding}
    BY <1>0, <2>1 DEF ClientTypeOK
  <2>2. CASE queue # << >> /\ queue' = Tail(queue) /\ sounding' = Head(queue)
    <3>1. queue \in Seq(Press) /\ queue # << >>
      BY <2>2 DEF ClientTypeOK
    <3>2. queue' \in Seq(Press) /\ sounding' \in Press
      BY <2>2, <3>1
    <3>3. ToSet(queue') \subseteq ToSet(queue) /\ sounding' \in ToSet(queue)
      BY <2>2, <3>1 DEF ToSet
    <3> QED
      BY <1>0, <3>2, <3>3
  <2> QED
    BY <1>1, <2>1, <2>2
<1>3. ClientTypeOK' /\ WireTypeOK'
  BY <1>1, <1>2 DEF ClientTypeOK, WireTypeOK
<1>4. SilencedStaysSilent'
  BY <1>0, <1>1, <1>2 DEF SilencedStaysSilent
<1> QED
  BY <1>1, <1>3, <1>4, RepliesStay

------------------------------------------------------------------------------
(* Nobody has asked for this turn yet, or it is due at one recorder only.   *)
NotSent(t) ==
    /\ \A i \in DOMAIN up : up[i].kind = "end" => up[i].of # t
    /\ \A i \in DOMAIN down : down[i].kind = "busy" => down[i].of # t

(* An `end` is sent, or gets lost.                                          *)
LEMMA EndSent ==
    ASSUME VInv, NEW t \in Press, NEW r \in 0..MaxPress, NotSent(t),
           reply'[t] \in {"asked", "cut"}, \A s \in stopping' : s[2] # t,
           stopping' \subseteq stopping,
           \A p \in Press : Unheard(p) => Unheard(p)',
           Send(Up("end", t, r)), UNCHANGED <<down, alive>>
    PROVE  WireTypeOK' /\ DueOnce' /\ EndsOnce' /\ BusyOnce'
<1> USE DEF VInv, VoiceTypeOK
<1> DEFINE f == Up("end", t, r)
<1>0. t \in 0..MaxPress
  BY WireAssumption DEF Press
<1>1. f \in UpFrame /\ f.kind = "end" /\ f.of = t
  BY <1>0, UpType
<1>2. up' \in Seq(UpFrame) /\ (up' = up \/ up' = Append(up, f))
  BY <1>1, SendType
<1> HIDE DEF f
<1>3. WireTypeOK'
  BY <1>2 DEF WireTypeOK
<1>4. \A i \in DOMAIN up' : \/ i \in DOMAIN up /\ up'[i] = up[i]
                            \/ i \notin DOMAIN up /\ up'[i] = f /\ i = Len(up) + 1
  BY <1>2, FramesTyped
<1>5. \A s \in stopping : s[2] \in Press
  BY DEF ClientTypeOK
<1>6. DueOnce'
  BY <1>5 DEF DueOnce
<1>7. EndsOnce'
  <2> SUFFICES ASSUME NEW i \in DOMAIN up', up'[i].kind = "end"
               PROVE  /\ up'[i].of \in Press /\ reply'[up'[i].of] \in {"asked", "cut"}
                      /\ \A j \in DOMAIN up' : up'[j].kind = "end" /\ up'[j].of = up'[i].of => j = i
                      /\ \A s \in stopping' : s[2] # up'[i].of
    BY DEF EndsOnce, Unheard
  <2>1. CASE i \in DOMAIN up /\ up'[i] = up[i]
    <3>1. /\ up[i].of # t /\ up[i].of \in Press
          /\ reply'[up[i].of] \in {"asked", "cut"}
      BY <2>1 DEF NotSent, EndsOnce, Unheard
    <3>2. \A j \in DOMAIN up' : up'[j].kind = "end" /\ up'[j].of = up'[i].of => j = i
      BY <1>1, <1>4, <2>1, <3>1 DEF EndsOnce
    <3> QED
      BY <2>1, <3>1, <3>2 DEF EndsOnce
  <2>2. CASE up'[i] = f /\ i = Len(up) + 1
    <3>1. \A j \in DOMAIN up' : up'[j].kind = "end" /\ up'[j].of = t => j = i
      BY <1>4, <2>2 DEF NotSent
    <3> QED
      BY <1>1, <2>2, <3>1
  <2> QED
    BY <1>4, <2>1, <2>2
<1>8. BusyOnce'
  BY <1>1, <1>4, FramesTyped DEF BusyOnce, NotSent
<1> QED
  BY <1>3, <1>6, <1>7, <1>8

(* Releasing the key stops its recorder (stopSpeaking).                     *)
LEMMA KeyUpStep ==
    ASSUME VInv, UNCHANGED server, KeyUp
    PROVE  VInv'
<1> USE DEF VInv, VoiceTypeOK
<1>1. /\ holding /\ holding' = FALSE /\ recorder' = 0
      /\ reply' = [reply EXCEPT ![press] = "asked"]
      /\ UNCHANGED <<conn, press, asking, stream, reading, player, down, alive>>
      /\ \/ /\ recorder # 0 /\ source' = [source EXCEPT ![recorder] = 0]
            /\ stopping' = stopping \cup {<<recorder, press>>} /\ UNCHANGED up
         \/ Send(Up("end", press, 0)) /\ UNCHANGED <<source, stopping>>
  BY DEF KeyUp
<1>2. press \in Press /\ reply[press] = "none"
  BY <1>1 DEF PressesAhead
<1>3. 0 \in 0..MaxPress /\ (recorder # 0 => recorder \in Press)
  BY WireAssumption DEF ClientTypeOK, Press
<1>4. /\ reply' \in [Press -> {"none", "asked", "begun", "cut", "silenced"}]
      /\ reply'[press] = "asked" /\ \A p \in Press : p # press => reply'[p] = reply[p]
  BY <1>1, <1>2 DEF ClientTypeOK
<1>5. ClientTypeOK'
  <2>1. stopping' \subseteq Press \X Press
    BY <1>1, <1>2, <1>3 DEF ClientTypeOK
  <2>2. source' \in [Press -> 0..MaxPress]
    BY <1>1, <1>3 DEF ClientTypeOK
  <2> QED
    BY <1>1, <1>3, <1>4, <2>1, <2>2 DEF ClientTypeOK, player
<1>6. PressesAhead'
  BY <1>1, <1>2, <1>4 DEF PressesAhead, ClientTypeOK, Press
<1>7. NotSent(press) /\ \A s \in stopping : s[2] # press
  BY <1>2 DEF NotSent, EndsOnce, BusyOnce, DueOnce, Unheard
<1>8. \A p \in Press : Unheard(p) => Unheard(p)'
  BY <1>2, <1>4 DEF Unheard
<1>9. WireTypeOK' /\ DueOnce' /\ EndsOnce' /\ BusyOnce'
  <2>1. CASE Send(Up("end", press, 0)) /\ UNCHANGED <<source, stopping>>
    BY <1>1, <1>2, <1>3, <1>4, <1>7, <1>8, <2>1, EndSent
  <2>2. CASE stopping' = stopping \cup {<<recorder, press>>} /\ UNCHANGED up
    <3>1. WireTypeOK'
      BY <1>1, <2>2 DEF WireTypeOK
    <3>2. \A s \in stopping' : s \in stopping \/ s = <<recorder, press>>
      BY <2>2
    <3>3. \A s \in stopping : s[2] \in Press
      BY DEF ClientTypeOK
    <3>5. DueOnce'
      <4>1. \A s \in stopping' : reply'[s[2]] \in {"asked", "cut"}
        BY <1>4, <1>8, <3>2, <3>3 DEF DueOnce, Unheard
      <4>2. \A s \in stopping', r \in stopping' : r[2] = s[2] => r = s
        BY <1>7, <3>2 DEF DueOnce
      <4> QED
        BY <4>1, <4>2 DEF DueOnce, Unheard
    <3>6. EndsOnce'
      BY <1>7, <1>8, <2>2, <3>2 DEF EndsOnce, NotSent
    <3>7. BusyOnce'
      BY <1>1, <1>7, <1>8, <2>2, <3>2, FramesTyped DEF BusyOnce, NotSent
    <3> QED
      BY <3>1, <3>5, <3>6, <3>7
  <2> QED
    BY <1>1, <2>1, <2>2
<1>10. \E g \in Received : InStep(g)'
  <2>1. UNCHANGED <<inTurn, discard>>
    BY <1>1 DEF player
  <2>2. \A t \in Press : reply[t] \in {"begun", "cut", "silenced"} => reply'[t] = reply[t]
    BY <1>2, <1>4
  <2> QED
    BY <1>1, <2>1, <2>2, ServerStays, InStepStays
<1>11. SilencedStaysSilent'
  BY <1>1, <1>2, <1>4, SilenceStays DEF player
<1> QED
  BY <1>5, <1>6, <1>9, <1>10, <1>11, ServerStays

(* The recorder that stopped sends the one `end` of its turn.               *)
LEMMA RecorderStoppedStep ==
    ASSUME VInv, UNCHANGED server, RecorderStopped
    PROVE  VInv'
<1> USE DEF VInv, VoiceTypeOK
<1>1. PICK s \in stopping :
        /\ stopping' = stopping \ {s}
        /\ reading' = IF conn = "open" THEN Append(reading, s[1]) ELSE reading
        /\ Send(Up("end", s[2], s[1]))
  BY DEF RecorderStopped
<1>2. UNCHANGED <<conn, press, holding, asking, stream, recorder, source, player, reply, down, alive>>
  BY DEF RecorderStopped
<1>3. s[1] \in Press /\ s[2] \in Press /\ s[1] \in 0..MaxPress
  BY WireAssumption DEF ClientTypeOK, Press
<1>4. reading' \in Seq(Press)
  BY <1>1, <1>3 DEF ClientTypeOK
<1>5. ClientTypeOK'
  BY <1>1, <1>2, <1>4 DEF ClientTypeOK, player
<1>6. NotSent(s[2]) /\ Unheard(s[2]) /\ \A r \in stopping' : r[2] # s[2]
  BY <1>1 DEF NotSent, EndsOnce, BusyOnce, DueOnce
<1>7. \A p \in Press : Unheard(p) => Unheard(p)'
  BY <1>2 DEF Unheard
<1>8. reply'[s[2]] \in {"asked", "cut"}
  BY <1>2, <1>6 DEF Unheard
<1>9. WireTypeOK' /\ DueOnce' /\ EndsOnce' /\ BusyOnce'
  BY <1>1, <1>2, <1>3, <1>6, <1>7, <1>8, EndSent
<1>10. \E g \in Received : InStep(g)'
  BY <1>2, ServerStays, InStepStays DEF player
<1>11. PressesAhead' /\ SilencedStaysSilent'
  BY <1>2 DEF PressesAhead, SilencedStaysSilent, player
<1> QED
  BY <1>5, <1>9, <1>10, <1>11, ServerStays

------------------------------------------------------------------------------
(* The client takes a frame off the wire, and it becomes the last one.      *)
LEMMA FrameTaken ==
    ASSUME VInv, UNCHANGED server, NEW g \in Received, InStep(g), NEW m \in DownFrame, m = Head(down),
           down # << >>, down' = Tail(down), UNCHANGED alive
    PROVE  /\ m \in Received /\ m.of \in Press
           /\ FramesInOrder(m)' /\ ServerAhead(m)'
           /\ m.kind = "audio" => g.kind \in {"busy", "audio"} /\ g.of = m.of
           /\ m.kind = "busy" => g.kind \in {"idle", "done"}
<1> USE DEF VInv, VoiceTypeOK
<1>1. /\ down \in Seq(DownFrame) /\ Len(down) \in Nat \ {0} /\ DOMAIN down = 1..Len(down)
      /\ down[1] = m
  BY FramesTyped
<1>2. /\ Len(down') = Len(down) - 1 /\ DOMAIN down' = 1..(Len(down) - 1)
      /\ \A i \in 1..(Len(down) - 1) : down'[i] = down[i + 1]
  BY <1>1
<1>3. \A i \in 1..Len(down) : Before(m, i)' = Before(g, i + 1)
  <2> SUFFICES ASSUME NEW i \in 1..Len(down) PROVE Before(m, i)' = Before(g, i + 1)
    OBVIOUS
  <2>1. Before(g, i + 1) = down[i]
    BY <1>1 DEF Before
  <2>2. CASE i = 1
    BY <1>1, <2>1, <2>2 DEF Before
  <2>3. CASE i # 1
    <3>1. i - 1 \in 1..(Len(down) - 1) /\ (i - 1) + 1 = i
      BY <1>1, <2>3
    <3>2. down'[i - 1] = down[i]
      BY <1>2, <3>1
    <3> QED
      BY <2>1, <2>3, <3>2 DEF Before
  <2> QED
    BY <2>2, <2>3
<1>4. FramesInOrder(m)'
  <2> SUFFICES ASSUME NEW i \in DOMAIN down'
               PROVE  /\ down'[i].kind = "audio" => /\ Before(m, i)'.kind \in {"busy", "audio"}
                                                    /\ Before(m, i)'.of = down'[i].of
                      /\ down'[i].kind = "busy" => Before(m, i)'.kind \in {"idle", "done"}
    BY DEF FramesInOrder
  <2>1. i + 1 \in DOMAIN down /\ i \in 1..Len(down) /\ down'[i] = down[i + 1]
    BY <1>1, <1>2
  <2> QED
    BY <1>3, <2>1 DEF InStep, FramesInOrder
<1>5. ServerAhead(m)'
  <2>0. Len(down) \in 1..Len(down)
    BY <1>1
  <2>1. PICK n \in 1..Len(down) : n = Len(down)
    BY <2>0
  <2>2. Len(down') + 1 = n
    BY <1>1, <1>2, <2>1
  <2>3. Before(m, n)' = Before(g, n + 1)
    BY <1>3
  <2> QED
    BY <2>1, <2>2, <2>3, ServerStays DEF InStep, ServerAhead
<1>6. m \in Received /\ m.of \in Press
  BY WireAssumption DEF DownFrame, Received, Press
<1>7. /\ m.kind = "audio" => g.kind \in {"busy", "audio"} /\ g.of = m.of
      /\ m.kind = "busy" => g.kind \in {"idle", "done"}
  <2>1. 1 \in DOMAIN down /\ Before(g, 1) = g
    BY <1>1 DEF Before
  <2> QED
    BY <1>1, <2>1 DEF InStep, FramesInOrder
<1> QED
  BY <1>4, <1>5, <1>6, <1>7

(* What is heard of a turn, and that its `busy` is off the wire.            *)
LEMMA ReceiveStep ==
    ASSUME VInv, UNCHANGED server, ClientReceive
    PROVE  VInv'
<1> USE DEF VInv, VoiceTypeOK
<1>0. /\ down # << >> /\ down' = Tail(down)
      /\ UNCHANGED <<conn, press, holding, asking, stream, recorder, source, stopping, reading, up, alive>>
  BY DEF ClientReceive, mic
<1>1. PICK g \in Received : InStep(g)
  OBVIOUS
<1>2. Head(down) \in DownFrame /\ down' \in Seq(DownFrame) /\ 1 \in DOMAIN down /\ down[1] = Head(down)
  BY <1>0, FramesTyped
<1>3. PICK m \in DownFrame : m = Head(down)
  BY <1>2
<1>4. /\ m \in Received /\ m.of \in Press
      /\ FramesInOrder(m)' /\ ServerAhead(m)'
      /\ m.kind = "audio" => g.kind \in {"busy", "audio"} /\ g.of = m.of
      /\ m.kind = "busy" => g.kind \in {"idle", "done"}
  BY <1>0, <1>1, <1>3, FrameTaken
<1>5. WireTypeOK'
  BY <1>0, <1>2 DEF WireTypeOK
<1>6. \A i \in DOMAIN down' : i + 1 \in DOMAIN down /\ i + 1 # 1 /\ down'[i] = down[i + 1]
  BY <1>0, FramesTyped
<1>7. ASSUME \A t \in Press : Unheard(t) => Unheard(t)' \/ (m.kind = "busy" /\ t = m.of)
      PROVE  DueOnce' /\ EndsOnce' /\ BusyOnce'
  <2>1. \A s \in stopping : s[2] \in Press /\ ~(m.kind = "busy" /\ s[2] = m.of)
    BY <1>2, <1>3 DEF BusyOnce, ClientTypeOK
  <2>2. \A i \in DOMAIN up : up[i].kind = "end" => up[i].of \in Press /\ ~(m.kind = "busy" /\ up[i].of = m.of)
    BY <1>2, <1>3 DEF BusyOnce, EndsOnce
  <2>3. \A i \in DOMAIN down' : down'[i].kind = "busy" =>
            /\ down'[i].of \in Press /\ ~(m.kind = "busy" /\ down'[i].of = m.of)
            /\ \A j \in DOMAIN down' : down'[j].kind = "busy" /\ down'[j].of = down'[i].of => j = i
    <3> SUFFICES ASSUME NEW i \in DOMAIN down', down'[i].kind = "busy"
                 PROVE  /\ down'[i].of \in Press /\ ~(m.kind = "busy" /\ down'[i].of = m.of)
                        /\ \A j \in DOMAIN down' :
                             down'[j].kind = "busy" /\ down'[j].of = down'[i].of => j = i
      OBVIOUS
    <3>1. /\ i \in Nat /\ i + 1 \in DOMAIN down /\ i + 1 # 1 /\ down'[i] = down[i + 1]
      BY <1>2, <1>6
    <3>2. down[i + 1].of \in Press /\ down[i + 1].kind = "busy"
      BY <3>1, FramesTyped
    <3>3. \A j \in DOMAIN down :
             down[j].kind = "busy" /\ down[j].of = down[i + 1].of => j = i + 1
      BY <3>1, <3>2 DEF BusyOnce
    <3>4. ~(m.kind = "busy" /\ down[i + 1].of = m.of)
      BY <1>2, <1>3, <3>1, <3>3
    <3>5. ASSUME NEW j \in DOMAIN down', down'[j].kind = "busy", down'[j].of = down'[i].of
          PROVE  j = i
      <4>1. j \in Nat /\ j + 1 \in DOMAIN down /\ down'[j] = down[j + 1]
        BY <1>2, <1>6
      <4>2. j + 1 = i + 1
        BY <3>1, <3>3, <3>5, <4>1
      <4> QED
        BY <3>1, <4>1, <4>2
    <3> QED
      BY <3>1, <3>2, <3>4, <3>5
  <2>4. DueOnce'
    BY <1>0, <1>7, <2>1 DEF DueOnce
  <2>5. EndsOnce'
    BY <1>0, <1>7, <2>2 DEF EndsOnce
  <2>6. BusyOnce'
    BY <1>0, <1>6, <1>7, <2>3 DEF BusyOnce
  <2> QED
    BY <2>4, <2>5, <2>6
<1>8. CASE m.kind = "busy" /\ BusyFrame(m.of)
  <2>1. /\ inTurn' = TRUE /\ UNCHANGED <<discard, queue, playing, sounding, late>>
        /\ reply' = [reply EXCEPT ![m.of] = IF @ = "asked" THEN "begun" ELSE @]
    BY <1>8 DEF BusyFrame
  <2>2. /\ reply[m.of] \in {"asked", "cut"}
        /\ reply'[m.of] = IF reply[m.of] = "asked" THEN "begun" ELSE "cut"
        /\ \A t \in Press : t # m.of => reply'[t] = reply[t]
        /\ reply' \in [Press -> {"none", "asked", "begun", "cut", "silenced"}]
    <3>1. reply[m.of] \in {"asked", "cut"}
      BY <1>2, <1>3, <1>8 DEF BusyOnce, Unheard
    <3> QED
      BY <1>4, <2>1, <3>1 DEF ClientTypeOK
  <2>3. ClientTypeOK'
    BY <1>0, <2>1, <2>2 DEF ClientTypeOK
  <2>4. PressesAhead'
    BY <1>0, <1>4, <2>2 DEF PressesAhead
  <2>5. DueOnce' /\ EndsOnce' /\ BusyOnce'
    BY <1>7, <1>8, <2>2 DEF Unheard
  <2>6. ~inTurn /\ ~discard
    BY <1>1, <1>4, <1>8 DEF InStep, ClientBehind
  <2>7. ClientBehind(m)'
    BY <1>4, <1>8, <2>1, <2>2, <2>6 DEF ClientBehind
  <2>8. SilencedStaysSilent'
    BY <1>4, <2>1, <2>2 DEF SilencedStaysSilent
  <2> QED
    BY <1>4, <1>5, <2>3, <2>4, <2>5, <2>7, <2>8, ServerStays DEF InStep
<1>9. CASE m.kind \in {"idle", "done"} /\ IdleFrame
  <2>1. inTurn' = FALSE /\ discard' = FALSE /\ UNCHANGED <<queue, playing, sounding, late, reply>>
    BY <1>9 DEF IdleFrame
  <2>2. ClientTypeOK' /\ PressesAhead' /\ SilencedStaysSilent'
    BY <1>0, <2>1 DEF ClientTypeOK, PressesAhead, SilencedStaysSilent
  <2>3. DueOnce' /\ EndsOnce' /\ BusyOnce'
    BY <1>7, <2>1 DEF Unheard
  <2>4. ClientBehind(m)'
    BY <1>9, <2>1 DEF ClientBehind
  <2> QED
    BY <1>4, <1>5, <2>2, <2>3, <2>4, ServerStays DEF InStep
<1>10. CASE m.kind = "audio" /\ FileFrame(m.of)
  <2>1. /\ UNCHANGED <<inTurn, discard, late, reply>>
        /\ \/ discard /\ UNCHANGED <<queue, playing, sounding>>
           \/ ~discard /\ playing /\ queue' = Append(queue, m.of) /\ UNCHANGED <<playing, sounding>>
           \/ ~discard /\ Drain(Append(queue, m.of))
    BY <1>10 DEF FileFrame
  <2>2. ~discard => reply[m.of] # "silenced"
    BY <1>1, <1>4, <1>10 DEF InStep, ClientBehind
  <2>3. /\ queue' \in Seq(Press) /\ playing' \in BOOLEAN /\ sounding' \in 0..MaxPress
        /\ ToSet(queue') \subseteq ToSet(queue) \cup {m.of} /\ sounding' \in {sounding, m.of} \cup ToSet(queue)
        /\ discard => queue' = queue /\ sounding' = sounding
    <3>0. queue \in Seq(Press) /\ playing \in BOOLEAN /\ sounding \in 0..MaxPress
      BY DEF ClientTypeOK
    <3>1. CASE discard
      BY <2>1, <3>0, <3>1
    <3>2. CASE ~discard /\ playing /\ queue' = Append(queue, m.of) /\ UNCHANGED <<playing, sounding>>
      <4>1. queue' \in Seq(Press)
        BY <1>4, <3>0, <3>2
      <4>2. ToSet(queue') \subseteq ToSet(queue) \cup {m.of}
        BY <1>4, <3>0, <3>2 DEF ToSet
      <4> QED
        BY <3>0, <3>2, <4>1, <4>2
    <3>3. CASE ~discard /\ Drain(Append(queue, m.of))
      <4> DEFINE q == Append(queue, m.of)
      <4>1. q \in Seq(Press) /\ q # << >> /\ ToSet(q) \subseteq ToSet(queue) \cup {m.of}
        BY <1>4, <3>0 DEF ToSet
      <4> HIDE DEF q
      <4>2. queue' = Tail(q) /\ sounding' = Head(q) /\ playing' = TRUE
        BY <3>3, <4>1 DEF Drain, q
      <4>3. queue' \in Seq(Press) /\ sounding' \in Press
        BY <4>1, <4>2
      <4>4. ToSet(queue') \subseteq ToSet(q) /\ sounding' \in ToSet(q)
        BY <4>1, <4>2 DEF ToSet
      <4>5. sounding' \in 0..MaxPress
        BY <4>3, WireAssumption DEF Press
      <4> QED
        BY <3>3, <4>1, <4>2, <4>3, <4>4, <4>5
    <3> QED
      BY <2>1, <3>1, <3>2, <3>3
  <2>4. ClientTypeOK' /\ PressesAhead'
    BY <1>0, <2>1, <2>3 DEF ClientTypeOK, PressesAhead
  <2>5. DueOnce' /\ EndsOnce' /\ BusyOnce'
    BY <1>7, <2>1 DEF Unheard
  <2>6. ClientBehind(m)'
    BY <1>1, <1>4, <1>10, <2>1 DEF InStep, ClientBehind
  <2>7. SilencedStaysSilent'
    BY <2>1, <2>2, <2>3 DEF SilencedStaysSilent
  <2> QED
    BY <1>4, <1>5, <2>4, <2>5, <2>6, <2>7, ServerStays DEF InStep
<1> QED
  BY <1>3, <1>8, <1>9, <1>10 DEF ClientReceive

------------------------------------------------------------------------------
(* What the browser keeps is untouched by a step of the server.             *)
LEMMA ClientStays ==
    ASSUME VInv, UNCHANGED client
    PROVE  /\ ClientTypeOK' /\ PressesAhead' /\ SilencedStaysSilent' /\ DueOnce'
           /\ UNCHANGED <<stopping, reply>>
           /\ \A g \in Received : ClientBehind(g) => ClientBehind(g)'
           /\ \A t \in Press : Unheard(t)' <=> Unheard(t)
<1> UNCHANGED <<conn, press, holding, asking, stream, recorder, source, stopping, reading,
                inTurn, discard, queue, playing, sounding, late, reply>>
  BY DEF client, mic, player
<1>1. ClientTypeOK' /\ PressesAhead' /\ SilencedStaysSilent' /\ DueOnce'
  BY DEF VInv, VoiceTypeOK, ClientTypeOK, PressesAhead, SilencedStaysSilent, DueOnce, Unheard
<1>2. \A g \in Received : ClientBehind(g) => ClientBehind(g)'
  BY DEF ClientBehind
<1> QED
  BY <1>1, <1>2 DEF Unheard

(* The server takes a frame off the wire.                                   *)
LEMMA UpTaken ==
    ASSUME VInv, UNCHANGED client, up # << >>, up' = Tail(up)
    PROVE  /\ up' \in Seq(UpFrame) /\ Head(up) \in UpFrame /\ EndsOnce'
           /\ \A i \in DOMAIN up' : up'[i].kind = "end" => \E j \in DOMAIN up : j # 1 /\ up[j] = up'[i]
           /\ 1 \in DOMAIN up /\ up[1] = Head(up)
<1> USE DEF VInv, VoiceTypeOK
<1>1. /\ up \in Seq(UpFrame) /\ up' \in Seq(UpFrame) /\ Head(up) \in UpFrame
      /\ 1 \in DOMAIN up /\ up[1] = Head(up)
      /\ \A i \in DOMAIN up' : i \in Nat /\ i + 1 \in DOMAIN up /\ i + 1 # 1 /\ up'[i] = up[i + 1]
  BY FramesTyped
<1>2. \A t \in Press : Unheard(t)' <=> Unheard(t)
  BY ClientStays
<1>3. stopping' = stopping
  BY ClientStays
<1>4. EndsOnce'
  BY <1>1, <1>2, <1>3 DEF EndsOnce
<1> QED
  BY <1>1, <1>4

(* A server step that sends nothing.                                        *)
LEMMA SendsNothing ==
    ASSUME VInv, UNCHANGED client, down' = down, alive' \in BOOLEAN, alive' => alive,
           up' = up \/ (up # << >> /\ up' = Tail(up)),
           alive' /\ pc' \in {"transcribing", "speaking"} =>
               pc \in {"transcribing", "speaking"} /\ turn' = turn,
           alive' /\ pc' \in {"listening", "storing", "replying", "remembering"} =>
               pc \in {"listening", "storing", "replying", "remembering"},
           ServerTypeOK', TurnServed', RowsInStep'
    PROVE  VInv'
<1> USE DEF VInv, VoiceTypeOK
<1>1. /\ up' \in Seq(UpFrame) /\ EndsOnce'
      /\ \A i \in DOMAIN up' : up'[i].kind = "end" => \E j \in DOMAIN up : up[j] = up'[i]
  <2>1. CASE up' = up
    <3>1. up \in Seq(UpFrame)
      BY FramesTyped
    <3>2. stopping' = stopping /\ \A t \in Press : Unheard(t)' <=> Unheard(t)
      BY ClientStays
    <3> QED
      BY <2>1, <3>1, <3>2 DEF EndsOnce
  <2>2. CASE up # << >> /\ up' = Tail(up)
    BY <2>2, UpTaken
  <2> QED
    BY <2>1, <2>2
<1>2. WireTypeOK'
  BY <1>1 DEF WireTypeOK
<1>3. BusyOnce'
  <2>1. stopping' = stopping /\ \A t \in Press : Unheard(t)' <=> Unheard(t)
    BY ClientStays
  <2> QED
    BY <1>1, <2>1, FramesTyped DEF BusyOnce
<1>4. PICK g \in Received : InStep(g)
  OBVIOUS
<1>5. FramesInOrder(g)' /\ ServerAhead(g)'
  BY <1>4 DEF InStep, FramesInOrder, ServerAhead, Before
<1> QED
  BY <1>1, <1>2, <1>3, <1>4, <1>5, ClientStays DEF InStep

(* FramesInOrder of any sequence of frames, and its last one.               *)
LastOf(d, g) == IF d = << >> THEN g ELSE d[Len(d)]

Ordered(d, g) ==
    \A i \in DOMAIN d :
        LET b == IF i = 1 THEN g ELSE d[i - 1]
        IN  /\ d[i].kind = "audio" => b.kind \in {"busy", "audio"} /\ b.of = d[i].of
            /\ d[i].kind = "busy" => b.kind \in {"idle", "done"}

(* The order of the frames as a statement about any sequence.               *)
LEMMA OrderedDown ==
    ASSUME WireTypeOK, NEW g
    PROVE  /\ FramesInOrder(g) <=> Ordered(down, g)
           /\ Before(g, Len(down) + 1) = LastOf(down, g)
<1>1. Len(down) \in Nat /\ (Len(down) = 0 <=> down = << >>)
  BY FramesTyped
<1>2. Before(g, Len(down) + 1) = LastOf(down, g)
  BY <1>1 DEF Before, LastOf
<1> QED
  BY <1>2 DEF FramesInOrder, Ordered, Before

(* A frame put behind the last one the order allows keeps it.               *)
LEMMA Appended ==
    ASSUME NEW d \in Seq(DownFrame), NEW g, Ordered(d, g), NEW f \in DownFrame,
           f.kind = "audio" => LastOf(d, g).kind \in {"busy", "audio"} /\ LastOf(d, g).of = f.of,
           f.kind = "busy" => LastOf(d, g).kind \in {"idle", "done"}
    PROVE  /\ Append(d, f) \in Seq(DownFrame) /\ Ordered(Append(d, f), g) /\ LastOf(Append(d, f), g) = f
           /\ \A i \in DOMAIN Append(d, f) :
                 (i \in DOMAIN d /\ Append(d, f)[i] = d[i]) \/ (i = Len(d) + 1 /\ Append(d, f)[i] = f)
<1> DEFINE e == Append(d, f)
<1>1. /\ e \in Seq(DownFrame) /\ Len(e) = Len(d) + 1 /\ e # << >> /\ e[Len(e)] = f
      /\ DOMAIN e = 1..(Len(d) + 1) /\ DOMAIN d = 1..Len(d) /\ Len(d) \in Nat
      /\ \A i \in 1..Len(d) : e[i] = d[i]
      /\ Len(d) = 0 <=> d = << >>
  OBVIOUS
<1> HIDE DEF e
<1>2. Ordered(e, g)
  <2> SUFFICES ASSUME NEW i \in DOMAIN e
               PROVE  LET b == IF i = 1 THEN g ELSE e[i - 1]
                      IN  /\ e[i].kind = "audio" => b.kind \in {"busy", "audio"} /\ b.of = e[i].of
                          /\ e[i].kind = "busy" => b.kind \in {"idle", "done"}
    BY DEF Ordered
  <2>1. CASE i = Len(d) + 1
    <3>1. (IF i = 1 THEN g ELSE e[i - 1]) = LastOf(d, g) /\ e[i] = f
      BY <1>1, <2>1 DEF LastOf
    <3> QED
      BY <3>1
  <2>2. CASE i # Len(d) + 1
    <3>1. i \in DOMAIN d /\ e[i] = d[i] /\ (i # 1 => e[i - 1] = d[i - 1])
      BY <1>1, <2>2
    <3> QED
      BY <3>1 DEF Ordered
  <2> QED
    BY <2>1, <2>2
<1>3. LastOf(e, g) = f
  BY <1>1 DEF LastOf
<1> QED
  BY <1>1, <1>2, <1>3 DEF e

(* A server step that sends frames of the turn it serves.                   *)
LEMMA SendsFrames ==
    ASSUME VInv, UNCHANGED <<client, up, alive>>, alive,
           NEW f \in DownFrame, f.kind # "busy", NEW h \in DownFrame, h.kind \in {"idle", "done"},
           NEW last \in {f, h},
           \/ down' = down \o <<f>> /\ last = f
           \/ down' = down \o <<f, h>> /\ last = h,
           f.kind = "audio" => pc = "speaking" /\ f.of = turn,
           pc' \in {"transcribing", "speaking"} => last.kind = "audio" /\ last.of = turn',
           pc' \in {"listening", "storing", "replying", "remembering"} => last.kind \in {"idle", "done"},
           ServerTypeOK', TurnServed', RowsInStep'
    PROVE  VInv'
<1> USE DEF VInv, VoiceTypeOK
<1>0. down \in Seq(DownFrame)
  BY FramesTyped
<1>1. PICK g \in Received : InStep(g)
  OBVIOUS
<1>2. Ordered(down, g) /\ LastOf(down, g) = Before(g, Len(down) + 1)
  BY <1>1, OrderedDown DEF InStep
<1>3. f.kind = "audio" => LastOf(down, g).kind \in {"busy", "audio"} /\ LastOf(down, g).of = f.of
  BY <1>1, <1>2 DEF InStep, ServerAhead
<1> DEFINE e == Append(down, f)
           k == Append(e, h)
<1>4. /\ e \in Seq(DownFrame) /\ Ordered(e, g) /\ LastOf(e, g) = f
      /\ \A i \in DOMAIN e : (i \in DOMAIN down /\ e[i] = down[i]) \/ e[i] = f
  BY <1>0, <1>2, <1>3, Appended
<1>5. down \o <<f>> = e /\ down \o <<f, h>> = k
  BY <1>0
<1> HIDE DEF e
<1>6. /\ k \in Seq(DownFrame) /\ Ordered(k, g) /\ LastOf(k, g) = h
      /\ \A i \in DOMAIN k : (i \in DOMAIN e /\ k[i] = e[i]) \/ k[i] = h
  BY <1>4, Appended
<1> HIDE DEF k
<1>7. /\ down' \in Seq(DownFrame) /\ Ordered(down', g) /\ LastOf(down', g) = last
      /\ \A i \in DOMAIN down' : down'[i].kind = "busy" => i \in DOMAIN down /\ down'[i] = down[i]
  <2>1. CASE down' = e /\ last = f
    BY <1>4, <2>1
  <2>2. CASE down' = k /\ last = h
    BY <1>4, <1>6, <2>2
  <2> QED
    BY <1>5, <2>1, <2>2
<1>8. WireTypeOK'
  BY <1>7 DEF WireTypeOK
<1>9. FramesInOrder(g)' /\ ServerAhead(g)'
  <2>1. FramesInOrder(g)' /\ Before(g, Len(down) + 1)' = LastOf(down', g)
    <3>1. Len(down') \in Nat /\ (Len(down') = 0 <=> down' = << >>)
      BY <1>7
    <3>2. Before(g, Len(down) + 1)' = LastOf(down', g)
      BY <3>1 DEF Before, LastOf
    <3> QED
      BY <1>7, <3>2 DEF FramesInOrder, Ordered, Before
  <2> QED
    BY <1>7, <2>1 DEF ServerAhead
<1>10. EndsOnce' /\ BusyOnce'
  <2>1. stopping' = stopping /\ \A t \in Press : Unheard(t)' <=> Unheard(t)
    BY ClientStays
  <2>2. EndsOnce'
    BY <2>1 DEF EndsOnce
  <2>3. BusyOnce'
    BY <1>7, <2>1, FramesTyped DEF BusyOnce
  <2> QED
    BY <2>2, <2>3
<1> QED
  BY <1>1, <1>8, <1>9, <1>10, ClientStays DEF InStep

(* Frames of the server.                                                    *)
LEMMA DownType ==
    ASSUME NEW kind \in {"busy", "idle", "done", "audio"}, NEW t \in Press
    PROVE  Down(kind, t) \in DownFrame /\ Down(kind, t).kind = kind /\ Down(kind, t).of = t
  BY DEF Down, DownFrame

(* A turn begins: its `busy` is the only one there is.                      *)
LEMMA TurnBegins ==
    ASSUME VInv, UNCHANGED <<client, alive>>, alive, pc = "listening", up # << >>, up' = Tail(up),
           NEW p, Head(up).kind = "end", Head(up).of = p,
           \/ down' = down \o <<Down("busy", p)>> /\ pc' = "transcribing" /\ turn' = p
           \/ down' = down \o <<Down("busy", p), Down("idle", p)>> /\ pc' = "listening",
           ServerTypeOK', TurnServed', RowsInStep'
    PROVE  VInv'
<1> USE DEF VInv, VoiceTypeOK
<1>0. down \in Seq(DownFrame)
  BY FramesTyped
<1>1. /\ up' \in Seq(UpFrame) /\ EndsOnce' /\ 1 \in DOMAIN up /\ up[1] = Head(up)
      /\ \A i \in DOMAIN up' : up'[i].kind = "end" => \E j \in DOMAIN up : j # 1 /\ up[j] = up'[i]
  BY UpTaken
<1>2. /\ p \in Press /\ Unheard(p) /\ \A s \in stopping : s[2] # p
      /\ \A j \in DOMAIN up : up[j].kind = "end" /\ up[j].of = p => j = 1
      /\ \A i \in DOMAIN down : down[i].kind = "busy" => down[i].of # p
  BY <1>1 DEF EndsOnce, BusyOnce
<1>3. PICK g \in Received : InStep(g)
  OBVIOUS
<1>4. Ordered(down, g) /\ LastOf(down, g).kind \in {"idle", "done"}
  BY <1>3, OrderedDown DEF InStep, ServerAhead
<1> DEFINE f == Down("busy", p)
           h == Down("idle", p)
           e == Append(down, f)
           k == Append(e, h)
<1>5. /\ f \in DownFrame /\ f.kind = "busy" /\ f.of = p
      /\ h \in DownFrame /\ h.kind = "idle" /\ h.of = p
  BY <1>2, DownType
<1> HIDE DEF f, h
<1>6. /\ e \in Seq(DownFrame) /\ Ordered(e, g) /\ LastOf(e, g) = f
      /\ \A i \in DOMAIN e : (i \in DOMAIN down /\ e[i] = down[i]) \/ (i = Len(down) + 1 /\ e[i] = f)
  BY <1>0, <1>4, <1>5, Appended
<1>7. down \o <<f>> = e /\ down \o <<f, h>> = k
  BY <1>0
<1> HIDE DEF e
<1>8. /\ k \in Seq(DownFrame) /\ Ordered(k, g) /\ LastOf(k, g) = h
      /\ \A i \in DOMAIN k : (i \in DOMAIN e /\ k[i] = e[i]) \/ k[i] = h
  BY <1>5, <1>6, Appended
<1> HIDE DEF k
<1>9. /\ down' \in Seq(DownFrame) /\ Ordered(down', g)
      /\ \A i \in DOMAIN down' : down'[i].kind = "busy" =>
             \/ i \in DOMAIN down /\ down'[i] = down[i]
             \/ i = Len(down) + 1 /\ down'[i].of = p
      /\ \/ pc' = "transcribing" /\ turn' = p /\ LastOf(down', g) = f
         \/ pc' = "listening" /\ LastOf(down', g) = h
  <2>1. CASE down' = e /\ pc' = "transcribing" /\ turn' = p
    BY <1>5, <1>6, <2>1
  <2>2. CASE down' = k /\ pc' = "listening"
    BY <1>5, <1>6, <1>8, <2>2
  <2> QED
    BY <1>7, <2>1, <2>2 DEF f, h
<1>10. WireTypeOK'
  BY <1>1, <1>9 DEF WireTypeOK
<1>11. FramesInOrder(g)' /\ ServerAhead(g)'
  <2>1. Len(down') \in Nat /\ (Len(down') = 0 <=> down' = << >>)
    BY <1>9
  <2>2. Before(g, Len(down) + 1)' = LastOf(down', g)
    BY <2>1 DEF Before, LastOf
  <2>3. FramesInOrder(g)'
    BY <1>9 DEF FramesInOrder, Ordered, Before
  <2> QED
    BY <1>5, <1>9, <2>2, <2>3 DEF ServerAhead
<1>12. BusyOnce'
  <2>1. stopping' = stopping /\ reply' = reply
    BY ClientStays
  <2>2. \A i \in DOMAIN up' : up'[i].kind = "end" =>
            up'[i].of # p /\ \E j \in DOMAIN up : up[j] = up'[i]
    BY <1>1, <1>2
  <2>3. \A i \in DOMAIN down' : down'[i].kind = "busy" => reply'[down'[i].of] \in {"asked", "cut"}
    BY <1>2, <1>9, <2>1 DEF BusyOnce, Unheard
  <2>4. \A i \in DOMAIN down', j \in DOMAIN down' :
            down'[i].kind = "busy" /\ down'[j].kind = "busy" /\ down'[j].of = down'[i].of => j = i
    BY <1>2, <1>9 DEF BusyOnce
  <2>5. \A i \in DOMAIN down' : down'[i].kind = "busy" =>
            /\ \A j \in DOMAIN up' : up'[j].kind = "end" => up'[j].of # down'[i].of
            /\ \A s \in stopping' : s[2] # down'[i].of
    BY <1>2, <1>9, <2>1, <2>2 DEF BusyOnce
  <2> QED
    BY <2>3, <2>4, <2>5 DEF BusyOnce, Unheard
<1> QED
  BY <1>1, <1>3, <1>10, <1>11, <1>12, ClientStays DEF InStep

(* The receive loop takes a frame: an `end` begins a turn (voice).          *)
LEMMA ServerReceiveStep ==
    ASSUME VInv, UNCHANGED client, ServerReceive
    PROVE  VInv'
<1> USE DEF VInv, VoiceTypeOK
<1>1. /\ pc = "listening" /\ up # << >> /\ up' = Tail(up)
      /\ UNCHANGED <<alive, userRows, tutorRows, remembered>>
  BY DEF ServerReceive, tables
<1>2. alive' \in BOOLEAN /\ Head(up) \in UpFrame
  BY <1>1, UpTaken DEF WireTypeOK
<1>3. CASE StartFrame \/ AudioFrame \/ Goodbye
  <2>1. /\ pc' \in {"listening", "ending"} /\ buffer' \in BOOLEAN
        /\ UNCHANGED <<down, turn, files, answered>>
    BY <1>1, <1>3 DEF StartFrame, AudioFrame, Goodbye, ServerTypeOK
  <2>2. ServerTypeOK' /\ TurnServed' /\ RowsInStep'
    BY <1>1, <2>1 DEF ServerTypeOK, TurnServed, RowsInStep
  <2> QED
    BY <1>1, <1>2, <2>1, <2>2, SendsNothing
<1>4. CASE Head(up).kind = "end" /\ EndFrame(Head(up).of)
  <2>1. PICK p \in Press : p = Head(up).of
    BY <1>1, <1>4, UpTaken DEF EndsOnce
  <2>2. p \in 0..MaxPress /\ 0 \in 0..MaxFiles
    BY WireAssumption DEF Press
  <2>3. /\ buffer' = FALSE /\ turn' = p /\ files' = 0
        /\ answered' = answered \/ answered' = answered \cup {p}
        /\ pc' \in {"transcribing", "listening", "ending"}
    BY <1>4, <2>1 DEF EndFrame, SendThen
  <2>4. ServerTypeOK' /\ TurnServed' /\ RowsInStep'
    BY <1>1, <2>1, <2>2, <2>3 DEF ServerTypeOK, TurnServed, RowsInStep
  <2>5. CASE alive
    <3>1. \/ down' = down \o <<Down("busy", p)>> /\ pc' = "transcribing" /\ turn' = p
          \/ down' = down \o <<Down("busy", p), Down("idle", p)>> /\ pc' = "listening"
      BY <1>4, <2>1, <2>5 DEF EndFrame, SendThen
    <3> QED
      BY <1>1, <1>4, <2>1, <2>4, <2>5, <3>1, TurnBegins
  <2>6. CASE ~alive
    <3>1. down' = down /\ ~alive'
      BY <1>1, <1>4, <2>1, <2>6 DEF EndFrame, SendThen
    <3> QED
      BY <1>1, <1>2, <2>4, <3>1, SendsNothing
  <2> QED
    BY <2>5, <2>6
<1> QED
  BY <1>3, <1>4 DEF ServerReceive

(* The reply: silence, a sentence, its end.                                 *)
LEMMA ReplySteps ==
    ASSUME VInv, UNCHANGED client, Transcribed \/ Speak \/ ReplyEnds
    PROVE  VInv'
<1> USE DEF VInv, VoiceTypeOK
<1>1. /\ pc \in {"transcribing", "speaking"} /\ turn \in Press /\ UNCHANGED <<up, alive, buffer, turn, tables>>
      /\ files' \in 0..MaxFiles /\ answered' \in {answered, answered \cup {turn}}
      /\ pc' \in {"listening", "speaking", "storing", "ending"}
      /\ pc' = "storing" => answered' = answered \cup {turn}
  <2>1. pc \in {"transcribing", "speaking"} /\ turn \in Press /\ UNCHANGED <<up, alive, buffer, turn, tables>>
    BY DEF Transcribed, Speak, ReplyEnds, TurnServed
  <2>2. files' \in 0..MaxFiles
    BY WireAssumption DEF Transcribed, Speak, ReplyEnds, ServerTypeOK
  <2>3. /\ answered' \in {answered, answered \cup {turn}}
        /\ pc' \in {"listening", "speaking", "storing", "ending"}
        /\ pc' = "storing" => answered' = answered \cup {turn}
    BY DEF Transcribed, Speak, ReplyEnds, SendThen
  <2> QED
    BY <2>1, <2>2, <2>3
<1>2. ServerTypeOK' /\ TurnServed' /\ RowsInStep'
  BY <1>1 DEF ServerTypeOK, TurnServed, RowsInStep, tables
<1>3. alive' \in BOOLEAN
  BY <1>1 DEF WireTypeOK
<1>4. CASE down' = down /\ (~alive \/ pc' \in {"speaking", "ending"})
  BY <1>1, <1>2, <1>3, <1>4, SendsNothing
<1> DEFINE i == Down("idle", turn)
           d == Down("done", turn)
           a == Down("audio", turn)
<1>5. /\ i \in DownFrame /\ i.kind = "idle"
      /\ d \in DownFrame /\ d.kind = "done"
      /\ a \in DownFrame /\ a.kind = "audio" /\ a.of = turn
  BY <1>1, DownType
<1>6. CASE alive /\ Transcribed /\ down' = down \o <<i>> /\ pc' = "listening"
  <2> HIDE DEF i
  <2> QED
    BY <1>1, <1>2, <1>5, <1>6, SendsFrames
<1>7. CASE alive /\ Speak /\ down' = down \o <<a>> /\ pc' = "speaking" /\ pc = "speaking"
  <2> HIDE DEF i, a
  <2> QED
    BY <1>1, <1>2, <1>5, <1>7, SendsFrames
<1>8. CASE alive /\ ReplyEnds /\ down' = down \o <<i, d>> /\ pc' = "storing"
  <2> HIDE DEF i, d
  <2> QED
    BY <1>1, <1>2, <1>5, <1>8, SendsFrames
<1>9. down \o << >> = down
  BY FramesTyped
<1> QED
  BY <1>4, <1>6, <1>7, <1>8, <1>9 DEF Transcribed, Speak, ReplyEnds, SendThen

(* The turn is stored, or something raises, and the session ends.           *)
LEMMA StoreSteps ==
    ASSUME VInv, UNCHANGED client,
           \/ PeerGone \/ StoreUser \/ StoreReply \/ Remember \/ ServerFails \/ EndSession \/ Consolidated
    PROVE  VInv'
<1> USE DEF VInv, VoiceTypeOK
<1>0. 0 \in 0..MaxPress /\ 0 \in 0..MaxFiles
  BY WireAssumption
<1>1. CASE PeerGone \/ ServerFails
  <2>1. pc' = "ending" /\ UNCHANGED <<wire, buffer, turn, files, tables, answered>>
    BY <1>1 DEF PeerGone, ServerFails
  <2>2. ServerTypeOK' /\ TurnServed' /\ RowsInStep'
    BY <2>1 DEF ServerTypeOK, TurnServed, RowsInStep, tables
  <2> QED
    BY <2>1, <2>2, SendsNothing DEF wire, WireTypeOK
<1>2. CASE EndSession \/ Consolidated
  <2>1. /\ pc' \in {"consolidating", "over"} /\ UNCHANGED <<up, down, tables, answered>>
        /\ alive' = alive \/ alive' = FALSE
        /\ turn' \in {turn, 0} /\ files' \in {files, 0} /\ buffer' \in {buffer, FALSE}
    BY <1>2 DEF EndSession, Consolidated
  <2>2. ServerTypeOK' /\ TurnServed' /\ RowsInStep'
    BY <1>0, <2>1 DEF ServerTypeOK, TurnServed, RowsInStep, tables
  <2>3. alive' \in BOOLEAN /\ (alive' => alive)
    <3>1. CASE alive' = alive
      BY <3>1 DEF WireTypeOK
    <3>2. CASE alive' = FALSE
      BY <3>2
    <3> QED
      BY <2>1, <3>1, <3>2
  <2> QED
    BY <2>1, <2>2, <2>3, SendsNothing
<1>3. CASE StoreUser \/ StoreReply \/ Remember
  <2>1. /\ UNCHANGED <<wire, buffer, answered>> /\ pc \in {"storing", "replying", "remembering"}
        /\ pc' \in {"replying", "listening", "remembering"}
    BY <1>3 DEF StoreUser, StoreReply, Remember
  <2>2. turn \in Press /\ turn \in answered
    BY <2>1 DEF TurnServed
  <2>3. ServerTypeOK'
    BY <1>0, <1>3, <2>1, <2>2 DEF StoreUser, StoreReply, Remember, ServerTypeOK, TurnServed, RowsInStep
  <2>4. TurnServed' /\ RowsInStep'
    BY <1>3, <2>1, <2>2 DEF StoreUser, StoreReply, Remember, ServerTypeOK, TurnServed, RowsInStep
  <2> QED
    BY <2>1, <2>3, <2>4, SendsNothing DEF wire, WireTypeOK
<1> QED
  BY <1>1, <1>2, <1>3

(* No step of either side or of the wire breaks the invariant.              *)
LEMMA VInvStep == VInv /\ [Next]_vars => VInv'
<1> SUFFICES ASSUME VInv, [Next]_vars PROVE VInv'
  OBVIOUS
<1>1. CASE (Student \/ Browser \/ ConnectionBreaks) /\ UNCHANGED server
  BY <1>1, KeyDownStep, KeyUpStep, EscapeStep, ConnectionSteps, MicSteps, ReceiveStep, ChunkReadStep,
     RecorderStoppedStep, PlayerSteps DEF Student, Browser
<1>2. CASE ServerStep /\ UNCHANGED client
  BY <1>2, ServerReceiveStep, ReplySteps, StoreSteps DEF ServerStep
<1>3. CASE UNCHANGED vars
  <2>1. /\ UNCHANGED <<client, up, down, alive>> /\ UNCHANGED server
        /\ alive' \in BOOLEAN
    BY <1>3 DEF vars, wire, VInv, VoiceTypeOK, WireTypeOK
  <2>2. ServerTypeOK' /\ TurnServed' /\ RowsInStep' /\ UNCHANGED <<pc, turn>>
    BY <2>1, ServerStays
  <2> QED
    BY <2>1, <2>2, SendsNothing
<1> QED
  BY <1>1, <1>2, <1>3 DEF Next

(* The inductive invariant of a voice session.                              *)
THEOREM VoiceInvariant == Spec => []VInv
  BY InitVInv, VInvStep, PTL DEF Spec

(* Frames, buffers and rows have their types, and a reply is stored after   *)
(* the text it answers, its events after both.                              *)
THEOREM VoiceTypeCorrect == Spec => []VoiceTypeOK
<1>1. VInv => VoiceTypeOK
  BY DEF VInv
<1> QED
  BY <1>1, VoiceInvariant, PTL

(* In a session that goes on, memory and transcript hold the same turns.    *)
THEOREM MemoryFollowsTranscript == Spec => []MemoryMatchesTranscript
<1>1. VInv => MemoryMatchesTranscript
  BY DEF VInv, RowsInStep, MemoryMatchesTranscript
<1> QED
  BY <1>1, VoiceInvariant, PTL

(* The gate drops a file only of a turn the student interrupted.            *)
THEOREM LiveRepliesAreHeard == Spec => []LiveReplyHeard
<1>1. VInv => LiveReplyHeard
  <2> SUFFICES ASSUME VInv, discard, down # << >>, Head(down).kind = "audio"
               PROVE  reply[Head(down).of] \in {"cut", "silenced"}
    BY DEF LiveReplyHeard
  <2>1. PICK g \in Received : InStep(g)
    BY DEF VInv
  <2>2. 1 \in DOMAIN down /\ Head(down) = down[1]
    BY FramesTyped DEF VInv, VoiceTypeOK
  <2>3. g.of = Head(down).of
    BY <2>1, <2>2 DEF InStep, FramesInOrder, Before
  <2> QED
    BY <2>1, <2>3 DEF InStep, ClientBehind
<1> QED
  BY <1>1, VoiceInvariant, PTL

(* An interrupted reply is not heard again, however much of it is still on  *)
(* the wire, on the server or in the queue.                                 *)
THEOREM InterruptedRepliesStaySilent == Spec => []SilencedStaysSilent
<1>1. VInv => SilencedStaysSilent
  BY DEF VInv
<1> QED
  BY <1>1, VoiceInvariant, PTL
==============================================================================
