------------------------------- MODULE VoiceWire -------------------------------
(***************************************************************************)
(* The WebSocket between one voice client (web/src/voice) and the server   *)
(* (engram/voice): two FIFO channels that die together.  Only the frames   *)
(* some guard reads are modelled; the server ignores `cancel`, and what    *)
(* transcript, token, usage and error frames change is on the screen only. *)
(***************************************************************************)
EXTENDS Naturals, Sequences, SequencesExt

CONSTANTS MaxPress,   \* bound: presses of the talk key
          MaxFiles    \* bound: audio files of one reply

ASSUME WireAssumption == MaxPress \in Nat /\ MaxFiles \in Nat

Press == 1..MaxPress

VARIABLES up,     \* frames on their way to the server
          down,   \* frames on their way to the client
          alive   \* the connection

wire == <<up, down, alive>>

(* A press number names the turn it asks for and the recorder it creates.   *)
UpFrame == [kind: {"start", "audio", "end", "goodbye"}, of: 0..MaxPress, rec: 0..MaxPress]

DownFrame == [kind: {"busy", "idle", "done", "audio"}, of: Press]

Up(kind, p, r) == [kind |-> kind, of |-> p, rec |-> r]

Down(kind, p) == [kind |-> kind, of |-> p]

WireTypeOK == up \in Seq(UpFrame) /\ down \in Seq(DownFrame) /\ alive \in BOOLEAN

WireInit == up = << >> /\ down = << >> /\ alive = TRUE
================================================================================
