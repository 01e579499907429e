--------------------------- MODULE AudioPlayback ---------------------------
(***************************************************************************)
(* The client's playback side (audio/audio_client_socket.hpp).  The        *)
(* receiver's thread reads a buffer of stereo frames every other second    *)
(* and queues its samples in out_ring_buffer (read_samples); the device's  *)
(* thread takes whole frames out of it (write_callback).  The writer       *)
(* counts samples and the reader frames: nothing but the sizes involved    *)
(* keeps the left channel from becoming the right one.                     *)
(***************************************************************************)
EXTENDS Integers, Sequences

CONSTANTS
  Channels,       \* of the receiver, and of the device's layout
  PlaybackSlots,  \* the capacity of out_ring_buffer, in samples
  BufferFrames,   \* config.buffer_size, in frames
  Minima          \* the values of frame_count_min: ALSA passes 0

Sample == [n : Nat, ch : 0 .. Channels - 1]
NoSample == [n |-> 0, ch |-> 0]

VARIABLES
  down,          \* the frames on their way to this client
  slots,         \* the content of out_ring_buffer
  queued, taken, \* its write and read offsets, in samples
  receiver,      \* the receiver's thread: pc, queued_samples
  callback,      \* write_callback(): pc, read_count, frames_left, read_ptr
  speaker,       \* the samples of the frame the device was given last
  heard          \* history: the frames it was given, one after the other

playbackVars == <<down, slots, queued, taken, receiver, callback, speaker, heard>>

Listening == [pc |-> "read", count |-> 0]
Resting == [pc |-> "rest", count |-> 0, left |-> 0, at |-> 0]

Init ==
  /\ slots = [i \in 0 .. PlaybackSlots - 1 |-> NoSample]
  /\ queued = 0 /\ taken = 0
  /\ receiver = Listening
  /\ callback = Resting
  /\ speaker = [c \in 0 .. Channels - 1 |-> [NoSample EXCEPT !.ch = c]]
  /\ heard = <<>>

Slot(p) == p % PlaybackSlots
Lower(a, b) == IF a < b THEN a ELSE b

-----------------------------------------------------------------------------
(* The loop of initReceiver() and read_samples(); leaving it when          *)
(* roc_receiver_read() fails is to take no further step.                   *)

\* The i-th sample of a buffer of frames, interleaved.
Interleaved(frames, i) ==
  [n |-> frames[i \div Channels + 1], ch |-> i % Channels]

\* The first count samples of the frames go behind what is queued.
Queue(frames, count) ==
  slots' = [s \in DOMAIN slots |->
    LET i == (s - queued) % PlaybackSlots
    IN IF i < count THEN Interleaved(frames, i) ELSE slots[s]]

Room == PlaybackSlots - (queued - taken)

\* Mutant: one sample too many passes for fitting in.
ReceiverReadsOneMore ==
  /\ receiver.pc = "read" /\ Len(down) >= BufferFrames
  /\ LET count == Lower(Room + 1, BufferFrames * Channels)
     IN /\ Queue(SubSeq(down, 1, BufferFrames), count)
        /\ receiver' = [pc |-> "advance", count |-> count]
  /\ down' = SubSeq(down, BufferFrames + 1, Len(down))
  /\ UNCHANGED <<queued, taken, callback, speaker, heard>>

\* Mutant: the samples queued are not limited to the room there is.
ReceiverReadsUnbounded ==
  /\ receiver.pc = "read" /\ Len(down) >= BufferFrames
  /\ LET count == Lower(PlaybackSlots, BufferFrames * Channels)
     IN /\ Queue(SubSeq(down, 1, BufferFrames), count)
        /\ receiver' = [pc |-> "advance", count |-> count]
  /\ down' = SubSeq(down, BufferFrames + 1, Len(down))
  /\ UNCHANGED <<queued, taken, callback, speaker, heard>>

(***************************************************************************)
(* roc_receiver_read() fills the buffer; as many of its samples as the     *)
(* ring has room for are queued, the rest is dropped.  That the copying is *)
(* one step with the look at the room is right as long as NeverTorn holds. *)
(***************************************************************************)
ReceiverReads ==
  /\ receiver.pc = "read" /\ Len(down) >= BufferFrames
  /\ LET count == Lower(Room, BufferFrames * Channels)
     IN /\ Queue(SubSeq(down, 1, BufferFrames), count)
        /\ receiver' = [pc |-> "advance", count |-> count]
  /\ down' = SubSeq(down, BufferFrames + 1, Len(down))
  /\ UNCHANGED <<queued, taken, callback, speaker, heard>>

ReceiverAdvances ==
  /\ receiver.pc = "advance"
  /\ queued' = queued + receiver.count
  /\ receiver' = Listening
  /\ UNCHANGED <<down, slots, taken, callback, speaker, heard>>

-----------------------------------------------------------------------------
(* write_callback()                                                        *)

\* The device is started after the first read_samples().
Started == queued > 0
Filled == (queued - taken) \div Channels

\* Too little in the ring: silence.
CallbackFindsTooLittle(min) ==
  /\ callback.pc = "rest" /\ Started /\ min > Filled
  /\ callback' = [Resting EXCEPT !.pc = "silence", !.left = min]
  /\ UNCHANGED <<down, slots, queued, taken, receiver, speaker, heard>>

\* begin_write() takes some frames of silence: frames_left becomes what it took,
\* so that the loop goes on until it takes none.  An error of begin_write() leaves
\* frame_count as it is: as long as it lasts the loop does not end.
CallbackWritesSilence ==
  /\ callback.pc = "silence"
  /\ \E took \in 0 .. callback.left :
       callback' = IF took = 0 THEN Resting ELSE [callback EXCEPT !.left = took]
  /\ UNCHANGED <<down, slots, queued, taken, receiver, speaker, heard>>

\* Mutant: what the device can take, whatever the ring has.
CallbackFindsAnything(min, max) ==
  /\ callback.pc = "rest" /\ Started /\ min <= Filled
  /\ callback' = [pc |-> "write", count |-> max, left |-> max, at |-> taken]
  /\ UNCHANGED <<down, slots, queued, taken, receiver, speaker, heard>>

\* As many frames as the device can take (frame_count_max, here max) and the ring has.
CallbackFindsEnough(min, max) ==
  /\ callback.pc = "rest" /\ Started /\ min <= Filled
  /\ LET count == Lower(max, Filled) IN
       callback' = [pc |-> "write", count |-> count, left |-> count, at |-> taken]
  /\ UNCHANGED <<down, slots, queued, taken, receiver, speaker, heard>>

\* One frame of a chunk that begin_write() grants.
CallbackCopies ==
  /\ callback.pc = "write" /\ callback.left > 0
  /\ speaker' = [c \in 0 .. Channels - 1 |-> slots[Slot(callback.at + c)]]
  /\ heard' = IF speaker'[0].n = 0 THEN heard ELSE Append(heard, speaker'[0].n)
  /\ callback' = [callback EXCEPT !.left = @ - 1, !.at = @ + Channels]
  /\ UNCHANGED <<down, slots, queued, taken, receiver>>

\* After an error of begin_write(), only logged, a frame is copied to areas of an
\* earlier call or of none; after one of end_write() it is not played either.
CallbackMiswrites ==
  /\ callback.pc = "write" /\ callback.left > 0
  /\ callback' = [callback EXCEPT !.left = @ - 1, !.at = @ + Channels]
  /\ UNCHANGED <<down, slots, queued, taken, receiver, speaker, heard>>

\* All frames are written, or begin_write() took no more: the read offset moves
\* by all that were to be written.
CallbackEnds ==
  /\ callback.pc = "write"
  /\ taken' = taken + callback.count * Channels
  /\ callback' = Resting
  /\ UNCHANGED <<down, slots, queued, receiver, speaker, heard>>

-----------------------------------------------------------------------------
Callback ==
  \/ \E min \in Minima : CallbackFindsTooLittle(min)
  \/ \E min \in Minima, max \in 1 .. PlaybackSlots \div Channels : CallbackFindsEnough(min, max)
  \/ CallbackWritesSilence \/ CallbackCopies \/ CallbackMiswrites
  \/ CallbackEnds

Receiver == ReceiverReads \/ ReceiverAdvances

Next == Receiver \/ Callback

-----------------------------------------------------------------------------
(* Properties                                                              *)

\* The variables have their types.
TypeOK ==
  /\ down \in Seq(Nat)
  /\ slots \in [0 .. PlaybackSlots - 1 -> Sample]
  /\ queued \in Nat /\ taken \in 0 .. queued
  /\ receiver \in [pc : {"read", "advance"}, count : 0 .. PlaybackSlots]
  /\ callback \in [pc : {"rest", "silence", "write"}, count : 0 .. PlaybackSlots,
                   left : Nat, at : Nat]
  /\ speaker \in [0 .. Channels - 1 -> Sample]
  /\ heard \in Seq(Nat)

(***************************************************************************)
(* The device's frame is made of one frame's samples, each on its channel: *)
(* however much of a buffer read_samples() had to drop and however little  *)
(* begin_write() took, left and right are never swapped nor mixed.         *)
(***************************************************************************)
ChannelsAligned ==
  \A c \in DOMAIN speaker : speaker[c] = [n |-> speaker[0].n, ch |-> c]

\* The slots read_samples() fills and those write_callback() copies are distinct.
NeverTorn ==
  \A p \in queued .. queued + receiver.count - 1,
     q \in taken .. taken + callback.count * Channels - 1 : Slot(p) # Slot(q)

=============================================================================
