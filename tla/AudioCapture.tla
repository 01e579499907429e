---------------------------- MODULE AudioCapture ----------------------------
(***************************************************************************)
(* The client's capture side (audio/audio_transmitter.hpp).  The device's  *)
(* thread runs read_callback(), which copies frames from the device into   *)
(* ring_buffer; the transmitter's thread wakes every second and hands what *)
(* is there to the roc sender.  Each side reads the other's offset once    *)
(* and moves its own when it is done.                                      *)
(*                                                                         *)
(* A frame of the device is its number, in the order of recording; 0 is    *)
(* anything else.  The offsets count such frames from the start; position  *)
(* p is in slot p % CaptureSlots.  The roc sender takes the bytes as they  *)
(* are for frames of its own, whose size may be another: frame f of the    *)
(* sender is the f-th SenderFrame bytes of the frames in "given".          *)
(***************************************************************************)
EXTENDS Integers, Sequences

CONSTANTS
  CaptureSlots,  \* the capacity of ring_buffer, in frames
  MaxFrames,     \* bound: frames recorded, and positions of the ring used
  DeviceFrame,   \* bytes of a frame of the device, instream->bytes_per_frame
  SenderFrame    \* bytes of a frame of the roc sender, two floats

VARIABLES
  recorded,   \* frames the device has recorded
  taken,      \* the last of them that the device has given away or lost
  slots,      \* the content of ring_buffer
  written, sent,  \* its write and read offsets
  callback,   \* read_callback(): pc, write_frames, frames_left, write_ptr
  sender,     \* the transmitter's loop: pc, fill_bytes in frames of the device
  amiss,      \* history: positions that got no frame of their own
  given,      \* history: what the roc sender was given, position by position
  up          \* the sender's frames on their way

captureVars ==
  <<recorded, taken, slots, written, sent, callback, sender, amiss, given, up>>

Resting == [pc |-> "rest", want |-> 0, left |-> 0, at |-> 0]

Init ==
  /\ recorded = 0 /\ taken = 0
  /\ slots = [i \in 0 .. CaptureSlots - 1 |-> 0]
  /\ written = 0 /\ sent = 0
  /\ callback = Resting
  /\ sender = [pc |-> "sleep", fill |-> 0]
  /\ amiss = {} /\ given = <<>>
  /\ up = <<>>

Slot(p) == p % CaptureSlots

-----------------------------------------------------------------------------
(* The device                                                              *)

\* Frames arrive in periods, of any size, when those before have been taken.
Record ==
  /\ taken = recorded
  /\ recorded' \in recorded + 1 .. MaxFrames
  /\ UNCHANGED <<taken, slots, written, sent, callback, sender, amiss, given, up>>

\* The device's own buffer overruns: its oldest frames are gone.
DeviceOverruns ==
  /\ taken' \in taken + 1 .. recorded
  /\ UNCHANGED <<recorded, slots, written, sent, callback, sender, amiss, given, up>>

-----------------------------------------------------------------------------
(* read_callback()                                                         *)

Lower(a, b) == IF a < b THEN a ELSE b

\* Mutant: the frames in the ring are not taken off its free count.
CallbackStartsUnbounded ==
  /\ callback.pc = "rest" /\ taken < recorded
  /\ LET want == Lower(CaptureSlots, recorded - taken) IN
       /\ written + want <= MaxFrames
       /\ callback' = [pc |-> "read", want |-> want, left |-> want, at |-> written]
  /\ UNCHANGED <<recorded, taken, slots, written, sent, sender, amiss, given, up>>

\* As many frames as the device offers (frame_count_max) and the ring has room.
CallbackStarts ==
  /\ callback.pc = "rest" /\ taken < recorded
  /\ LET want == Lower(CaptureSlots - (written - sent), recorded - taken) IN
       /\ written + want <= MaxFrames
       /\ callback' = [pc |-> "read", want |-> want, left |-> want, at |-> written]
  /\ UNCHANGED <<recorded, taken, slots, written, sent, sender, amiss, given, up>>

\* One frame of a chunk that begin_read() grants is copied.
CallbackCopies ==
  /\ callback.pc = "read" /\ callback.left > 0 /\ taken < recorded
  /\ slots' = [slots EXCEPT ![Slot(callback.at)] = taken + 1]
  /\ taken' = taken + 1
  /\ callback' = [callback EXCEPT !.left = @ - 1, !.at = @ + 1]
  /\ UNCHANGED <<recorded, written, sent, sender, amiss, given, up>>

(***************************************************************************)
(* An error of begin_read() is only logged: what is copied comes from      *)
(* areas of an earlier call or of none, and may be any frame, or nothing   *)
(* like one.  After an error of end_read() the device offers the same      *)
(* frames again: the copies made before are then the ones amiss.           *)
(***************************************************************************)
CallbackMisreads ==
  /\ callback.pc = "read" /\ callback.left > 0
  /\ \E v \in 0 .. recorded : slots' = [slots EXCEPT ![Slot(callback.at)] = v]
  /\ amiss' = amiss \cup {callback.at}
  /\ callback' = [callback EXCEPT !.left = @ - 1, !.at = @ + 1]
  /\ UNCHANGED <<recorded, taken, written, sent, sender, given, up>>

\* A hole, or no areas after an error: as many places are cleared, but write_ptr
\* stays, so that later frames of this callback go there.
CallbackMeetsHole ==
  /\ callback.pc = "read"
  /\ \E count \in 1 .. callback.left :
       /\ slots' = [s \in DOMAIN slots |->
            IF (s - callback.at) % CaptureSlots < count THEN 0 ELSE slots[s]]
       /\ taken' \in taken .. Lower(recorded, taken + count)
       /\ callback' = [callback EXCEPT !.left = @ - count]
  /\ UNCHANGED <<recorded, written, sent, sender, amiss, given, up>>

(***************************************************************************)
(* Every frame is there, or begin_read() granted none: the write offset    *)
(* moves by all that were wanted, past places cleared or never written.    *)
(***************************************************************************)
CallbackEnds ==
  /\ callback.pc = "read"
  /\ written' = written + callback.want
  /\ amiss' = amiss \cup (callback.at .. written + callback.want - 1)
  /\ callback' = Resting
  /\ UNCHANGED <<recorded, taken, slots, sent, sender, given, up>>

-----------------------------------------------------------------------------
(* The loop of initInputStreamReader()                                     *)

\* The frames of the sender that n frames of the device make.
FramesIn(n) == (n * DeviceFrame) \div SenderFrame

(***************************************************************************)
(* After a second's sleep what is in the ring, whatever it is, is written  *)
(* to the roc sender.  That this is one step with the look at fill_count   *)
(* is right as long as NeverTorn holds: read_callback() leaves those slots *)
(* alone.                                                                  *)
(***************************************************************************)
SenderWrites ==
  /\ sender.pc = "sleep" /\ ((written - sent) * DeviceFrame) % SenderFrame = 0
  /\ sender' = [pc |-> "advance", fill |-> written - sent]
  /\ given' = given \o [i \in 1 .. written - sent |-> slots[Slot(sent + i - 1)]]
  /\ up' = up \o [i \in 1 .. FramesIn(Len(given')) - FramesIn(Len(given))
                    |-> FramesIn(Len(given)) + i]
  /\ UNCHANGED <<recorded, taken, slots, written, sent, callback, amiss>>

\* roc_sender_write() refuses bytes that are no whole number of its frames, and may
\* fail otherwise: the loop is left.
SenderFails ==
  /\ sender.pc = "sleep"
  /\ sender' = [pc |-> "failed", fill |-> 0]
  /\ UNCHANGED <<recorded, taken, slots, written, sent, callback, amiss, given, up>>

\* Mutant: the ring is left as it was.
SenderKeeps ==
  /\ sender.pc = "advance"
  /\ sender' = [pc |-> "sleep", fill |-> 0]
  /\ UNCHANGED <<recorded, taken, slots, written, sent, callback, amiss, given, up>>

SenderAdvances ==
  /\ sender.pc = "advance"
  /\ sent' = sent + sender.fill
  /\ sender' = [pc |-> "sleep", fill |-> 0]
  /\ UNCHANGED <<recorded, taken, slots, written, callback, amiss, given, up>>

-----------------------------------------------------------------------------
Next ==
  \/ Record \/ DeviceOverruns
  \/ CallbackStarts \/ CallbackCopies \/ CallbackMisreads \/ CallbackMeetsHole
  \/ CallbackEnds
  \/ SenderWrites \/ SenderFails \/ SenderAdvances

-----------------------------------------------------------------------------
(* Properties                                                              *)

\* The variables have their types.
TypeOK ==
  /\ recorded \in 0 .. MaxFrames /\ taken \in 0 .. recorded
  /\ slots \in [0 .. CaptureSlots - 1 -> 0 .. MaxFrames]
  /\ written \in 0 .. MaxFrames /\ sent \in 0 .. written
  /\ callback \in [pc : {"rest", "read"}, want : 0 .. CaptureSlots,
                   left : 0 .. CaptureSlots, at : 0 .. MaxFrames]
  /\ sender \in [pc : {"sleep", "advance", "failed"}, fill : 0 .. CaptureSlots]
  /\ amiss \in SUBSET (0 .. MaxFrames - 1)
  /\ given \in Seq(0 .. MaxFrames)
  /\ up \in Seq(Nat)

(***************************************************************************)
(* The places read_callback() fills and those the sender reads, each from  *)
(* the offset the other had some time ago, are never the same slot.        *)
(***************************************************************************)
NeverTorn ==
  \A p \in written .. written + callback.want - 1, q \in sent .. sent + sender.fill - 1 :
    Slot(p) # Slot(q)

=============================================================================
