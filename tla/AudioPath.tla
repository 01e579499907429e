----------------------------- MODULE AudioPath -----------------------------
(***************************************************************************)
(* The way of a client's audio: recorded and sent (AudioCapture), handed   *)
(* on by the server (AudioForward), received and played (AudioPlayback).   *)
(* The roc library between them is external: it delivers the frames it is  *)
(* given in order, loses some, and fills some gaps with silence.           *)
(***************************************************************************)
EXTENDS Integers, Sequences

CONSTANTS
  CaptureSlots, MaxFrames,  \* see AudioCapture
  DeviceFrame, SenderFrame,
  Client, Listener,         \* see AudioForward
  MaxJoins,
  BufferFrames,             \* config.buffer_size, in frames
  Channels, PlaybackSlots,  \* see AudioPlayback
  Minima

\* The sizes are multiples of the number of channels, as the pages of
\* out_ring_buffer and the stereo buffers of the receiver are.
ASSUME SizesAssumption ==
  /\ CaptureSlots \in Nat \ {0} /\ MaxFrames \in Nat /\ BufferFrames \in Nat \ {0}
  /\ DeviceFrame \in Nat \ {0} /\ SenderFrame \in Nat \ {0}
  /\ Channels \in Nat \ {0} /\ PlaybackSlots \in Nat \ {0}
  /\ PlaybackSlots % Channels = 0
ASSUME ClientAssumption == Listener \in Client /\ Minima \subseteq Nat /\ MaxJoins \in Nat

VARIABLES
  recorded, offered, inRing, written, sent, capturing, sender, amiss,
  given, alive, senders, forwarder,
  up, down,
  outRing, queued, taken, receiver, playing, speaker, heard

Capture == INSTANCE AudioCapture WITH
  taken <- offered, slots <- inRing, callback <- capturing
Forward == INSTANCE AudioForward
Playback == INSTANCE AudioPlayback WITH slots <- outRing, callback <- playing

captureVars == <<recorded, offered, inRing, written, sent, capturing, sender, amiss, given>>
forwardVars == <<alive, senders, forwarder>>
playbackVars == <<outRing, queued, taken, receiver, playing, speaker, heard>>
vars == <<captureVars, forwardVars, playbackVars, up, down>>

Init == Capture!Init /\ Forward!Init /\ Playback!Init

(***************************************************************************)
(* The network or a receiver's jitter buffer loses a frame, and the rest   *)
(* moves up or silence takes its place.  To the listener it is all one on  *)
(* which of the two ways.                                                  *)
(***************************************************************************)
PacketLost ==
  /\ \E i \in DOMAIN up :
       \/ up' = SubSeq(up, 1, i - 1) \o SubSeq(up, i + 1, Len(up))
       \/ up' = [up EXCEPT ![i] = 0]
  /\ UNCHANGED <<captureVars, forwardVars, playbackVars, down>>

Next ==
  \/ Capture!Next /\ UNCHANGED <<forwardVars, playbackVars, down>>
  \/ Forward!Next /\ UNCHANGED <<captureVars, playbackVars>>
  \/ Playback!Next /\ UNCHANGED <<captureVars, forwardVars, up>>
  \/ PacketLost

Spec == Init /\ [][Next]_vars

-----------------------------------------------------------------------------
(* Properties                                                              *)

\* The variables of the three parts have their types.
TypeOK == Capture!TypeOK /\ Forward!TypeOK /\ Playback!TypeOK

\* See the modules of the parts.
CaptureNeverTorn == Capture!NeverTorn
PlaybackNeverTorn == Playback!NeverTorn
ChannelsAligned == Playback!ChannelsAligned
ReturnedToAll == Forward!ReturnedToAll

Stream == INSTANCE AudioStream

(***************************************************************************)
(* Through both rings, both callbacks cut short, holes, errors, overruns,  *)
(* frames of two sizes, lost packets and joining clients the listener is   *)
(* played what the sender was given, in order and nothing twice, and what  *)
(* it was given is the recorded frames, in order and none twice, but for   *)
(* one place for every one that read_callback() advanced over without      *)
(* having put its frame there.                                             *)
(***************************************************************************)
ImplementsStream == Stream!Spec

=============================================================================
