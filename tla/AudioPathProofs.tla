-------------------------- MODULE AudioPathProofs --------------------------
(***************************************************************************)
(* The safety of the audio path, for rings and buffers of any sizes, any   *)
(* number of channels and any clients.                                     *)
(*                                                                         *)
(* A thread knows the other side's offset only as it was some time ago, so *)
(* the invariants speak of shares: what a callback has reserved is room    *)
(* that the other side has already given back, and it can only give back   *)
(* more. In out_ring_buffer every offset is a multiple of Channels, and    *)
(* between the offsets lie whole frames, each sample on its channel.       *)
(***************************************************************************)
EXTENDS AudioPath, SequenceTheorems, TLAPS

\* The callback's share of ring_buffer lies behind what the sender is reading: it
\* ends at most a ring's length after sent.
CaptureInv ==
  /\ Capture!TypeOK
  /\ sender.pc # "advance" => sender.fill = 0
  /\ sent + sender.fill <= written
  /\ Len(given) = sent + sender.fill
  /\ written + capturing.want <= sent + CaptureSlots
  /\ written + capturing.want <= MaxFrames
  /\ capturing.pc = "rest" => capturing = Capture!Resting
  /\ capturing.pc = "read" =>
       /\ written <= capturing.at
       /\ capturing.at + capturing.left <= written + capturing.want

\* The forwarder has a buffer, and a first sender, when it goes on with them.
ForwardInv ==
  /\ Forward!TypeOK
  /\ forwarder.pc = "first" => senders # <<>>
  /\ forwarder.pc = "read" => forwarder.buffer = <<>>

\* A number of samples that is one of whole frames.
Multiple(a) == a % Channels = 0

\* The position of the first sample of the frame at position p.
First(p) == p - (p % Channels)

\* The sample at position p of out_ring_buffer.
OutSample(p) == outRing[Playback!Slot(p)]

\* The positions of out_ring_buffer that hold a sample.
Filled == taken .. queued + receiver.count - 1

\* Both sides move by whole frames within their shares, and what is queued is whole
\* frames with each sample on its channel.
PlaybackInv ==
  /\ Playback!TypeOK
  /\ receiver.pc = "read" => receiver.count = 0
  /\ queued + receiver.count <= taken + PlaybackSlots
  /\ Multiple(queued) /\ Multiple(taken) /\ Multiple(receiver.count)
  /\ playing.pc # "write" => playing.count = 0
  /\ taken + (playing.count * Channels) <= queued
  /\ playing.pc = "write" =>
       /\ taken <= playing.at /\ Multiple(playing.at)
       /\ playing.at + (playing.left * Channels) <= taken + (playing.count * Channels)
  /\ \A p \in Filled : OutSample(p) = [n |-> OutSample(First(p)).n, ch |-> p % Channels]
  /\ ChannelsAligned

-----------------------------------------------------------------------------
(* Remainders                                                              *)

\* Division with remainder.
LEMMA DivMod ==
  ASSUME NEW n \in Nat \ {0}, NEW a \in Int
  PROVE  /\ a % n \in 0 .. n - 1 /\ a \div n \in Int
         /\ a = n * (a \div n) + (a % n)
  OBVIOUS

\* Multiples of n less than n apart are the same.
LEMMA Multiples ==
  ASSUME NEW n \in Nat \ {0}, NEW k \in Int, NEW l \in Int, NEW d \in Int,
         d = n * k - n * l, -n < d, d < n
  PROVE  k = l
  <1>1. n * (k - l) = d
    OBVIOUS
  <1>2. CASE k > l
    <2>1. n * (k - l) >= n
      BY <1>2
    <2> QED
      BY <2>1, <1>1
  <1>3. CASE k < l
    <2>1. n * (l - k) >= n
      BY <1>3
    <2> QED
      BY <2>1, <1>1
  <1> QED
    BY <1>2, <1>3

\* Different positions less than a ring's size apart have different slots.
LEMMA Apart ==
  ASSUME NEW n \in Nat \ {0}, NEW a \in Int, NEW b \in Int, a < b, b - a < n
  PROVE  a % n # b % n
  <1> SUFFICES ASSUME a % n = b % n PROVE FALSE
    OBVIOUS
  <1> DEFINE k == a \div n
             l == b \div n
  <1>1. /\ a = n * k + (a % n) /\ b = n * l + (a % n)
        /\ k \in Int /\ l \in Int /\ a % n \in Int
    BY DivMod
  <1> HIDE DEF k, l
  <1>2. b - a = n * l - n * k
    BY <1>1
  <1>3. k = l
    BY <1>1, <1>2, Multiples
  <1> QED
    BY <1>1, <1>3

\* Products of natural numbers.
LEMMA Product ==
  ASSUME NEW n \in Nat \ {0}, NEW a \in Nat
  PROVE  /\ a * n \in Nat /\ a <= a * n /\ (a > 0 => n <= a * n)
         /\ \A b \in Nat : a <= b => a * n <= b * n
  <1>1. a * n \in Nat /\ a <= a * n /\ (a > 0 => n <= a * n)
    OBVIOUS
  <1>2. ASSUME NEW b \in Nat, a <= b PROVE a * n <= b * n
    <2>1. (b - a) * n >= 0
      BY <1>2
    <2> QED
      BY <2>1
  <1> QED
    BY <1>1, <1>2

\* Quotients grow with what is divided.
LEMMA Quotient ==
  ASSUME NEW n \in Nat \ {0}, NEW a \in Nat, NEW b \in Nat, a <= b
  PROVE  a \div n \in Nat /\ a \div n <= b \div n
  <1> DEFINE k == a \div n
             l == b \div n
  <1>1. /\ k \in Int /\ a % n \in 0 .. n - 1 /\ a = n * k + (a % n)
        /\ l \in Int /\ b % n \in 0 .. n - 1 /\ b = n * l + (b % n)
    BY DivMod
  <1> HIDE DEF k, l
  <1>2. k >= 0
    <2> SUFFICES ASSUME k <= -1 PROVE FALSE
      BY <1>1
    <2>1. n * k <= -n
      BY <1>1
    <2> QED
      BY <1>1, <2>1
  <1>3. k <= l
    <2> SUFFICES ASSUME l <= k - 1 PROVE FALSE
      BY <1>1
    <2>1. n * (k - l) >= n
      BY <1>1
    <2>2. n * (k - l) = n * k - n * l
      BY <1>1
    <2> QED
      BY <1>1, <2>1, <2>2
  <1> QED
    BY <1>1, <1>2, <1>3 DEF k, l

\* The more the sender is given the more frames of its own it has.
LEMMA FramesGrow ==
  ASSUME NEW m \in Nat, NEW n \in Nat, m <= n
  PROVE  Capture!FramesIn(m) \in Nat /\ Capture!FramesIn(m) <= Capture!FramesIn(n)
  <1>1. m * DeviceFrame \in Nat /\ n * DeviceFrame \in Nat /\ m * DeviceFrame <= n * DeviceFrame
    BY Product, SizesAssumption
  <1> QED
    BY <1>1, Quotient, SizesAssumption DEF Capture!FramesIn

-----------------------------------------------------------------------------
(* The capture ring                                                        *)

\* Both sides start with an empty ring.
LEMMA CaptureStarts == Init => CaptureInv
  <1> SUFFICES ASSUME Init PROVE CaptureInv
    OBVIOUS
  <1>1. <<>> \in Seq(0 .. MaxFrames) /\ <<>> \in Seq(Nat) /\ Len(<<>>) = 0
    BY EmptySeq
  <1>2. Capture!TypeOK
    BY <1>1, SizesAssumption DEF Init, Capture!Init, Capture!TypeOK, Capture!Resting
  <1> QED
    BY <1>1, <1>2, SizesAssumption DEF Init, Capture!Init, CaptureInv, Capture!Resting

\* What is left of a sequence has its type.
LEMMA Suffix ==
  ASSUME NEW S, NEW s \in Seq(S)
  PROVE  /\ s # <<>> => Tail(s) \in Seq(S)
         /\ \A n \in Nat : n <= Len(s) =>
              SubSeq(s, 1, n) \in Seq(S) /\ SubSeq(s, n + 1, Len(s)) \in Seq(S)
  <1>1. s # <<>> => Tail(s) \in Seq(S)
    BY HeadTailProperties
  <1>2. ASSUME NEW n \in Nat, n <= Len(s)
        PROVE  SubSeq(s, 1, n) \in Seq(S) /\ SubSeq(s, n + 1, Len(s)) \in Seq(S)
    <2>1. \A i \in 1 .. Len(s) : s[i] \in S
      BY ElementOfSeq
    <2>2. Len(s) \in Nat
      BY LenProperties
    <2>3. \A i \in 1 .. n : s[i] \in S
      BY <2>1, <2>2, <1>2
    <2>4. \A i \in n + 1 .. Len(s) : s[i] \in S
      BY <2>1, <2>2, <1>2
    <2> QED
      BY <2>2, <2>3, <2>4, SubSeqProperties
  <1> QED
    BY <1>1, <1>2

\* What is left when one is taken out of a sequence, or silenced.
LEMMA LossIsSeq ==
  ASSUME PacketLost, up \in Seq(Nat)
  PROVE  up' \in Seq(Nat)
  <1>1. PICK i \in DOMAIN up : \/ up' = SubSeq(up, 1, i - 1) \o SubSeq(up, i + 1, Len(up))
                               \/ up' = [up EXCEPT ![i] = 0]
    BY DEF PacketLost
  <1>2. Len(up) \in Nat /\ DOMAIN up = 1 .. Len(up)
    BY LenProperties
  <1>3. i \in Nat /\ i - 1 \in Nat /\ i - 1 <= Len(up) /\ i <= Len(up)
    BY <1>2
  <1>4. SubSeq(up, 1, i - 1) \in Seq(Nat) /\ SubSeq(up, i + 1, Len(up)) \in Seq(Nat)
    BY <1>3, Suffix
  <1>5. CASE up' = SubSeq(up, 1, i - 1) \o SubSeq(up, i + 1, Len(up))
    BY <1>4, <1>5, ConcatProperties
  <1>6. CASE up' = [up EXCEPT ![i] = 0]
    BY <1>2, <1>6, ExceptSeq
  <1> QED
    BY <1>1, <1>5, <1>6

\* The records of the capture side.
CallbackRecord == [pc : {"rest", "read"}, want : 0 .. CaptureSlots,
                   left : 0 .. CaptureSlots, at : 0 .. MaxFrames]
SenderRecord == [pc : {"sleep", "advance", "failed"}, fill : 0 .. CaptureSlots]

\* What CaptureInv says of the types.
LEMMA CaptureMeans ==
  ASSUME CaptureInv
  PROVE  /\ recorded \in 0 .. MaxFrames /\ offered \in 0 .. recorded
         /\ inRing \in [0 .. CaptureSlots - 1 -> 0 .. MaxFrames]
         /\ written \in 0 .. MaxFrames /\ sent \in 0 .. written
         /\ capturing \in CallbackRecord /\ sender \in SenderRecord
         /\ amiss \in SUBSET (0 .. MaxFrames - 1)
         /\ given \in Seq(0 .. MaxFrames) /\ up \in Seq(Nat)
         /\ capturing.want \in Nat /\ capturing.left \in Nat /\ capturing.at \in Nat
         /\ capturing.want <= CaptureSlots /\ capturing.left <= CaptureSlots
         /\ sender.fill \in Nat /\ MaxFrames \in Nat /\ CaptureSlots \in Nat \ {0}
         /\ recorded \in Nat /\ offered \in Nat /\ written \in Nat /\ sent \in Nat
         /\ Len(given) \in Nat
  <1>1. /\ recorded \in 0 .. MaxFrames /\ offered \in 0 .. recorded
        /\ inRing \in [0 .. CaptureSlots - 1 -> 0 .. MaxFrames]
        /\ written \in 0 .. MaxFrames /\ sent \in 0 .. written
        /\ capturing \in CallbackRecord /\ sender \in SenderRecord
        /\ amiss \in SUBSET (0 .. MaxFrames - 1)
        /\ given \in Seq(0 .. MaxFrames) /\ up \in Seq(Nat)
    BY DEF CaptureInv, Capture!TypeOK, CallbackRecord, SenderRecord
  <1>2. MaxFrames \in Nat /\ CaptureSlots \in Nat \ {0}
    BY SizesAssumption
  <1>3. /\ capturing.want \in Nat /\ capturing.left \in Nat /\ capturing.at \in Nat
        /\ capturing.want <= CaptureSlots /\ capturing.left <= CaptureSlots
        /\ sender.fill \in Nat
    BY <1>1, <1>2 DEF CallbackRecord, SenderRecord
  <1>4. recorded \in Nat /\ offered \in Nat /\ written \in Nat /\ sent \in Nat
    BY ONLY <1>1, <1>2
  <1>5. Len(given) \in Nat
    BY <1>1, LenProperties
  <1> QED
    BY ONLY <1>1, <1>2, <1>3, <1>4, <1>5

\* Every position has its slot.
LEMMA SlotOf == ASSUME NEW p \in Int PROVE Capture!Slot(p) \in 0 .. CaptureSlots - 1
  BY DivMod, SizesAssumption DEF Capture!Slot

\* What the sender is given is what is in the ring, and makes new frames of its own.
LEMMA SenderGives ==
  ASSUME CaptureInv, Capture!SenderWrites
  PROVE  /\ given' \in Seq(0 .. MaxFrames) /\ Len(given') = written
         /\ Len(given) = sent
         /\ \A i \in 1 .. sent : given'[i] = given[i]
         /\ \A i \in sent + 1 .. written : given'[i] = inRing[Capture!Slot(i - 1)]
         /\ \E new \in Seq(Nat) :
              /\ up' = up \o new
              /\ Len(new) = Capture!FramesIn(Len(given')) - Capture!FramesIn(Len(given))
              /\ \A i \in 1 .. Len(new) : new[i] = Capture!FramesIn(Len(given)) + i
  <1> DEFINE fill == written - sent
             bytes == [i \in 1 .. fill |-> inRing[Capture!Slot(sent + i - 1)]]
  <1>1. /\ sender.pc = "sleep" /\ given' = given \o bytes
        /\ up' = up \o [i \in 1 .. Capture!FramesIn(Len(given')) - Capture!FramesIn(Len(given))
                          |-> Capture!FramesIn(Len(given)) + i]
    BY DEF Capture!SenderWrites
  <1>t. /\ inRing \in [0 .. CaptureSlots - 1 -> 0 .. MaxFrames]
        /\ given \in Seq(0 .. MaxFrames) /\ Len(given) \in Nat
        /\ written \in Nat /\ sent \in Nat
    BY CaptureMeans
  <1>2. sent <= written /\ Len(given) = sent
    BY <1>1, <1>t DEF CaptureInv
  <1>3. fill \in Nat
    BY <1>t, <1>2
  <1>4. ASSUME NEW i \in 1 .. fill PROVE bytes[i] \in 0 .. MaxFrames
    <2>1. sent + i - 1 \in Int
      BY <1>t, <1>3
    <2>2. Capture!Slot(sent + i - 1) \in 0 .. CaptureSlots - 1
      BY <2>1, SlotOf
    <2> QED
      BY <1>t, <2>2
  <1>5. /\ bytes \in Seq(0 .. MaxFrames) /\ Len(bytes) = fill
        /\ \A i \in 1 .. fill : bytes[i] = inRing[Capture!Slot(sent + i - 1)]
    <2>1. \A i \in 1 .. fill : bytes[i] = inRing[Capture!Slot(sent + i - 1)]
      OBVIOUS
    <2>2. bytes \in [1 .. fill -> 0 .. MaxFrames]
      BY <1>4
    <2> HIDE DEF bytes, fill
    <2>3. bytes \in Seq(0 .. MaxFrames)
      BY <1>3, <2>2, SeqDef
    <2>4. Len(bytes) = fill
      BY <1>3, <2>2, <2>3, LenProperties
    <2> QED
      BY <2>1, <2>3, <2>4
  <1> HIDE DEF bytes
  <1>6. /\ given' \in Seq(0 .. MaxFrames) /\ Len(given') = sent + fill
        /\ \A i \in 1 .. sent + fill :
             given'[i] = IF i <= sent THEN given[i] ELSE bytes[i - sent]
    <2> HIDE DEF fill
    <2>1. given' = given \o bytes
      BY <1>1 DEF bytes, fill
    <2> QED
      BY <1>2, <1>5, <1>t, <2>1, ConcatProperties
  <1>7. Len(given') = written
    BY <1>t, <1>6
  <1>8. ASSUME NEW i \in 1 .. sent PROVE given'[i] = given[i]
    <2>1. i \in 1 .. sent + fill /\ i <= sent
      BY <1>t, <1>3
    <2> QED
      BY <1>6, <2>1
  <1>9. ASSUME NEW i \in sent + 1 .. written PROVE given'[i] = inRing[Capture!Slot(i - 1)]
    <2>1. i \in 1 .. sent + fill /\ ~(i <= sent) /\ i - sent \in 1 .. fill
          /\ sent + (i - sent) - 1 = i - 1
      BY <1>t, <1>2
    <2>2. given'[i] = bytes[i - sent]
      BY <1>6, <2>1
    <2> QED
      BY <1>5, <2>1, <2>2
  <1> DEFINE a == Capture!FramesIn(Len(given))
             b == Capture!FramesIn(Len(given'))
             new == [i \in 1 .. b - a |-> a + i]
  <1>10. a \in Nat /\ b \in Nat /\ a <= b
    BY <1>t, <1>2, <1>7, FramesGrow
  <1> HIDE DEF a, b
  <1>11. new \in Seq(Nat) /\ Len(new) = b - a /\ \A i \in 1 .. Len(new) : new[i] = a + i
    BY <1>10
  <1>12. up' = up \o new
    BY <1>1 DEF a, b
  <1> HIDE DEF new
  <1>13. \E n \in Seq(Nat) :
              /\ up' = up \o n
              /\ Len(n) = Capture!FramesIn(Len(given')) - Capture!FramesIn(Len(given))
              /\ \A i \in 1 .. Len(n) : n[i] = Capture!FramesIn(Len(given)) + i
    BY <1>11, <1>12 DEF a, b
  <1> QED
    BY <1>2, <1>6, <1>7, <1>8, <1>9, <1>13

\* A look at the offsets reserves only what is free; all other steps keep the shares.
LEMMA CaptureStep == CaptureInv /\ [Next]_vars => CaptureInv'
  <1> SUFFICES ASSUME CaptureInv, [Next]_vars PROVE CaptureInv'
    OBVIOUS
  <1>t. /\ recorded \in 0 .. MaxFrames /\ offered \in 0 .. recorded
        /\ inRing \in [0 .. CaptureSlots - 1 -> 0 .. MaxFrames]
        /\ written \in 0 .. MaxFrames /\ sent \in 0 .. written
        /\ capturing \in CallbackRecord /\ sender \in SenderRecord
        /\ amiss \in SUBSET (0 .. MaxFrames - 1)
        /\ given \in Seq(0 .. MaxFrames) /\ up \in Seq(Nat)
    BY CaptureMeans
  <1>f. /\ capturing.want <= CaptureSlots /\ capturing.left <= CaptureSlots
        /\ capturing.want \in Nat /\ capturing.left \in Nat /\ capturing.at \in Nat
        /\ sender.fill \in Nat /\ MaxFrames \in Nat /\ CaptureSlots \in Nat \ {0}
        /\ recorded \in Nat /\ offered \in Nat /\ written \in Nat /\ sent \in Nat
    BY CaptureMeans
  <1>s. sent + sender.fill <= written /\ Len(given) = sent + sender.fill
        /\ (sender.pc # "advance" => sender.fill = 0)
    BY DEF CaptureInv
  <1>w. /\ written + capturing.want <= sent + CaptureSlots
        /\ written + capturing.want <= MaxFrames
    BY DEF CaptureInv
  <1>r. capturing.pc = "read" =>
          /\ written <= capturing.at
          /\ capturing.at + capturing.left <= written + capturing.want
    BY DEF CaptureInv
  <1>c. capturing.pc = "rest" => capturing = Capture!Resting
    BY DEF CaptureInv
  <1>k. ASSUME recorded' \in 0 .. MaxFrames, offered' \in 0 .. recorded',
               inRing' \in [0 .. CaptureSlots - 1 -> 0 .. MaxFrames],
               amiss' \in SUBSET (0 .. MaxFrames - 1), up' \in Seq(Nat),
               UNCHANGED <<written, sent, sender, given>>,
               capturing' \in CallbackRecord, capturing'.want = capturing.want,
               capturing'.pc = "rest" => capturing' = Capture!Resting,
               capturing'.pc = "read" =>
                 /\ written <= capturing'.at
                 /\ capturing'.at + capturing'.left <= written + capturing.want
        PROVE  CaptureInv'
    <2>1. Capture!TypeOK'
      BY <1>t, <1>k DEF Capture!TypeOK, CallbackRecord, SenderRecord
    <2> QED
      BY <1>s, <1>w, <1>k, <2>1 DEF CaptureInv, Capture!Resting
  <1>1. CASE Capture!Record
    <2>1. /\ recorded' \in recorded + 1 .. MaxFrames
          /\ UNCHANGED <<offered, inRing, written, sent, capturing, sender, amiss, given, up>>
      BY <1>1 DEF Capture!Record
    <2>2. recorded' \in 0 .. MaxFrames /\ offered' \in 0 .. recorded'
      BY ONLY <1>t, <1>f, <2>1
    <2> QED
      BY <1>t, <1>c, <1>r, <1>k, <2>1, <2>2 DEF Capture!Resting
  <1>2. CASE Capture!DeviceOverruns
    <2>1. /\ offered' \in offered + 1 .. recorded
          /\ UNCHANGED <<recorded, inRing, written, sent, capturing, sender, amiss, given, up>>
      BY <1>2 DEF Capture!DeviceOverruns
    <2>2. recorded' \in 0 .. MaxFrames /\ offered' \in 0 .. recorded'
      BY ONLY <1>t, <1>f, <2>1
    <2> QED
      BY <1>t, <1>c, <1>r, <1>k, <2>1, <2>2 DEF Capture!Resting
  <1>3. CASE Capture!CallbackStarts
    <2> DEFINE want == Capture!Lower(CaptureSlots - (written - sent), recorded - offered)
    <2>1. /\ capturing' = [pc |-> "read", want |-> want, left |-> want, at |-> written]
          /\ written + want <= MaxFrames /\ offered < recorded
          /\ UNCHANGED <<recorded, offered, inRing, written, sent, sender, amiss, given, up>>
      BY <1>3 DEF Capture!CallbackStarts
    <2>2. want \in 0 .. CaptureSlots /\ written + want <= sent + CaptureSlots
      <3>1. written - sent <= CaptureSlots
        BY <1>f, <1>w
      <3> QED
        BY <1>f, <1>t, <2>1, <3>1 DEF Capture!Lower
    <2> HIDE DEF want
    <2>3. capturing' \in CallbackRecord
      BY <1>t, <2>1, <2>2 DEF CallbackRecord
    <2>4. Capture!TypeOK'
      BY <1>t, <2>1, <2>3 DEF Capture!TypeOK, CallbackRecord, SenderRecord
    <2> QED
      BY <1>t, <1>f, <1>s, <2>1, <2>2, <2>4 DEF CaptureInv
  <1>p. ASSUME capturing.pc = "read", NEW v \in 0 .. MaxFrames, capturing.left > 0,
               inRing' = [inRing EXCEPT ![Capture!Slot(capturing.at)] = v],
               capturing' = [capturing EXCEPT !.left = @ - 1, !.at = @ + 1]
        PROVE  /\ inRing' \in [0 .. CaptureSlots - 1 -> 0 .. MaxFrames]
               /\ capturing' \in CallbackRecord /\ capturing'.want = capturing.want
               /\ capturing'.pc = "read" /\ written <= capturing'.at
               /\ capturing'.at + capturing'.left <= written + capturing.want
               /\ capturing.at \in 0 .. MaxFrames - 1
    <2>1. inRing' \in [0 .. CaptureSlots - 1 -> 0 .. MaxFrames]
      BY <1>t, <1>p, <1>f, SlotOf
    <2>2. capturing' = [pc |-> "read", want |-> capturing.want, left |-> capturing.left - 1,
                        at |-> capturing.at + 1]
      BY <1>t, <1>p DEF CallbackRecord
    <2>3. /\ capturing.left - 1 \in 0 .. CaptureSlots /\ capturing.at + 1 \in 0 .. MaxFrames
          /\ capturing.want \in 0 .. CaptureSlots /\ written <= capturing.at + 1
          /\ capturing.at + 1 + (capturing.left - 1) <= written + capturing.want
          /\ capturing.at \in 0 .. MaxFrames - 1
      BY ONLY <1>f, <1>r, <1>w, <1>p
    <2>4. /\ capturing'.pc = "read" /\ capturing'.want = capturing.want
          /\ capturing'.left = capturing.left - 1 /\ capturing'.at = capturing.at + 1
      BY ONLY <2>2
    <2>5. capturing' \in CallbackRecord
      BY ONLY <2>2, <2>3 DEF CallbackRecord
    <2>6. written <= capturing'.at /\ capturing'.at + capturing'.left <= written + capturing.want
      BY ONLY <2>3, <2>4
    <2> QED
      BY ONLY <2>1, <2>3, <2>4, <2>5, <2>6
  <1>4. CASE Capture!CallbackCopies
    <2>1. /\ capturing.pc = "read" /\ capturing.left > 0 /\ offered < recorded
          /\ inRing' = [inRing EXCEPT ![Capture!Slot(capturing.at)] = offered + 1]
          /\ offered' = offered + 1
          /\ capturing' = [capturing EXCEPT !.left = @ - 1, !.at = @ + 1]
          /\ UNCHANGED <<recorded, written, sent, sender, amiss, given, up>>
      BY <1>4 DEF Capture!CallbackCopies
    <2>2. offered + 1 \in 0 .. MaxFrames /\ offered' \in 0 .. recorded'
      <3>1. /\ offered \in Nat /\ recorded \in Nat /\ MaxFrames \in Nat /\ recorded \in 0 .. MaxFrames
            /\ offered < recorded /\ offered' = offered + 1 /\ recorded' = recorded
        BY <1>t, <1>f, <2>1
      <3> QED
        BY ONLY <3>1
    <2>3. /\ inRing' \in [0 .. CaptureSlots - 1 -> 0 .. MaxFrames]
          /\ capturing' \in CallbackRecord /\ capturing'.want = capturing.want
          /\ capturing'.pc = "read" /\ written <= capturing'.at
          /\ capturing'.at + capturing'.left <= written + capturing.want
      BY ONLY <1>p, <2>1, <2>2
    <2> QED
      BY <1>t, <1>k, <2>1, <2>2, <2>3
  <1>13. CASE Capture!CallbackMisreads
    <2>1. /\ capturing.pc = "read" /\ capturing.left > 0
          /\ amiss' = amiss \cup {capturing.at}
          /\ capturing' = [capturing EXCEPT !.left = @ - 1, !.at = @ + 1]
          /\ UNCHANGED <<recorded, offered, written, sent, sender, given, up>>
      BY <1>13 DEF Capture!CallbackMisreads
    <2>2. PICK v \in 0 .. recorded : inRing' = [inRing EXCEPT ![Capture!Slot(capturing.at)] = v]
      BY <1>13 DEF Capture!CallbackMisreads
    <2>3. v \in 0 .. MaxFrames
      BY <1>t, <1>f
    <2>4. /\ inRing' \in [0 .. CaptureSlots - 1 -> 0 .. MaxFrames]
          /\ capturing' \in CallbackRecord /\ capturing'.want = capturing.want
          /\ capturing'.pc = "read" /\ written <= capturing'.at
          /\ capturing'.at + capturing'.left <= written + capturing.want
          /\ capturing.at \in 0 .. MaxFrames - 1
      BY ONLY <1>p, <2>1, <2>2, <2>3
    <2>5. amiss' \in SUBSET (0 .. MaxFrames - 1)
      BY <1>t, <2>1, <2>4
    <2> QED
      BY <1>t, <1>k, <2>1, <2>4, <2>5
  <1>5. CASE Capture!CallbackMeetsHole
    <2>1. /\ capturing.pc = "read"
          /\ UNCHANGED <<recorded, written, sent, sender, amiss, given, up>>
      BY <1>5 DEF Capture!CallbackMeetsHole
    <2>2. PICK count \in 1 .. capturing.left :
            /\ inRing' = [s \in DOMAIN inRing |->
                 IF (s - capturing.at) % CaptureSlots < count THEN 0 ELSE inRing[s]]
            /\ offered' \in offered .. Capture!Lower(recorded, offered + count)
            /\ capturing' = [capturing EXCEPT !.left = @ - count]
      BY <1>5 DEF Capture!CallbackMeetsHole
    <2>3. inRing' \in [0 .. CaptureSlots - 1 -> 0 .. MaxFrames]
      <3>1. 0 \in 0 .. MaxFrames
        BY <1>f
      <3> QED
        BY <1>t, <2>2, <3>1
    <2>4. offered' \in 0 .. recorded'
      BY <1>t, <1>f, <2>1, <2>2 DEF Capture!Lower
    <2>5. capturing' = [pc |-> "read", want |-> capturing.want, left |-> capturing.left - count,
                        at |-> capturing.at]
      BY <1>t, <2>1, <2>2 DEF CallbackRecord
    <2>6. /\ capturing.left - count \in 0 .. CaptureSlots /\ capturing.at \in 0 .. MaxFrames
          /\ capturing.want \in 0 .. CaptureSlots /\ written <= capturing.at
          /\ capturing.at + (capturing.left - count) <= written + capturing.want
      BY ONLY <1>f, <1>r, <1>w, <2>1, count \in 1 .. capturing.left
    <2>7. /\ capturing' \in CallbackRecord /\ capturing'.want = capturing.want
          /\ capturing'.pc = "read" /\ written <= capturing'.at
          /\ capturing'.at + capturing'.left <= written + capturing.want
      BY ONLY <2>5, <2>6 DEF CallbackRecord
    <2> QED
      BY <1>t, <1>k, <2>1, <2>3, <2>4, <2>7
  <1>6. CASE Capture!CallbackEnds
    <2>1. /\ written' = written + capturing.want
          /\ amiss' = amiss \cup (capturing.at .. written + capturing.want - 1)
          /\ capturing' = [pc |-> "rest", want |-> 0, left |-> 0, at |-> 0]
          /\ UNCHANGED <<recorded, offered, inRing, sent, sender, given, up>>
      BY <1>6 DEF Capture!CallbackEnds, Capture!Resting
    <2>2. written' \in 0 .. MaxFrames /\ sent' \in 0 .. written' /\ sent + sender.fill <= written'
      <3>1. written' = written + capturing.want /\ sent' = sent
        BY <2>1
      <3>2. sent + sender.fill <= written
        BY <1>s
      <3> QED
        BY ONLY <1>f, <1>w, <3>1, <3>2
    <2>3. amiss' \in SUBSET (0 .. MaxFrames - 1)
      <3>1. ASSUME NEW p \in capturing.at .. written + capturing.want - 1
            PROVE  p \in 0 .. MaxFrames - 1
        BY <1>f, <1>w
      <3> QED
        BY <1>t, <2>1, <3>1
    <2>4. written' + 0 <= sent + CaptureSlots /\ written' + 0 <= MaxFrames
      BY <1>f, <1>w, <2>1
    <2>5. capturing' \in CallbackRecord
      BY <1>f, <2>1 DEF CallbackRecord
    <2>6. Capture!TypeOK'
      BY <1>t, <2>1, <2>2, <2>3, <2>5 DEF Capture!TypeOK, CallbackRecord, SenderRecord
    <2> QED
      BY <1>s, <2>1, <2>2, <2>4, <2>6 DEF CaptureInv, Capture!Resting
  <1>7. CASE Capture!SenderWrites
    <2>1. /\ sender' = [pc |-> "advance", fill |-> written - sent]
          /\ UNCHANGED <<recorded, offered, inRing, written, sent, capturing, amiss>>
      BY <1>7 DEF Capture!SenderWrites
    <2>2. written - sent \in 0 .. CaptureSlots /\ sent + (written - sent) = written
      BY <1>t, <1>f, <1>w
    <2>3. given' \in Seq(0 .. MaxFrames) /\ Len(given') = written
      BY <1>7, SenderGives
    <2>4. up' \in Seq(Nat)
      <3>1. PICK new \in Seq(Nat) : up' = up \o new
        BY <1>7, SenderGives
      <3> QED
        BY <1>t, <3>1, ConcatProperties
    <2>5. sender' \in SenderRecord
      BY <2>1, <2>2 DEF SenderRecord
    <2>6. Capture!TypeOK'
      BY <1>t, <2>1, <2>3, <2>4, <2>5 DEF Capture!TypeOK, CallbackRecord, SenderRecord
    <2> QED
      BY <1>w, <1>r, <1>c, <1>f, <2>1, <2>2, <2>3, <2>6 DEF CaptureInv, Capture!Resting
  <1>14. CASE Capture!SenderFails
    <2>1. /\ sender.pc = "sleep" /\ sender' = [pc |-> "failed", fill |-> 0]
          /\ UNCHANGED <<recorded, offered, inRing, written, sent, capturing, amiss, given, up>>
      BY <1>14 DEF Capture!SenderFails
    <2>2. sender' \in SenderRecord
      BY <1>f, <2>1 DEF SenderRecord
    <2>3. Capture!TypeOK'
      BY <1>t, <2>1, <2>2 DEF Capture!TypeOK, CallbackRecord, SenderRecord
    <2> QED
      BY <1>s, <1>w, <1>r, <1>c, <2>1, <2>3 DEF CaptureInv, Capture!Resting
  <1>8. CASE Capture!SenderAdvances
    <2>1. /\ sender.pc = "advance" /\ sender' = [pc |-> "sleep", fill |-> 0]
          /\ sent' = sent + sender.fill
          /\ UNCHANGED <<recorded, offered, inRing, written, capturing, amiss, given, up>>
      BY <1>8 DEF Capture!SenderAdvances
    <2>2. /\ sent' \in 0 .. written /\ sent' + 0 <= written /\ sent' + 0 = sent + sender.fill
          /\ written + capturing.want <= sent' + CaptureSlots
      <3>1. sent' = sent + sender.fill /\ sent + sender.fill <= written
        BY <1>s, <2>1
      <3> QED
        BY ONLY <1>f, <1>w, <3>1
    <2>3. sender' \in SenderRecord
      BY <1>f, <2>1 DEF SenderRecord
    <2>4. Capture!TypeOK'
      BY <1>t, <2>1, <2>2, <2>3 DEF Capture!TypeOK, CallbackRecord, SenderRecord
    <2> QED
      BY <1>s, <1>w, <1>r, <1>c, <2>1, <2>2, <2>4 DEF CaptureInv, Capture!Resting
  <1>9. CASE UNCHANGED captureVars /\ up' \in Seq(Nat)
    BY <1>t, <1>c, <1>r, <1>k, <1>9 DEF captureVars
  <1>10. CASE Forward!Next /\ UNCHANGED captureVars
    <2>1. UNCHANGED up \/ Forward!ForwarderReads
      BY <1>10 DEF Forward!Next, Forward!AddClientTransmission,
         Forward!ForwarderLooks, Forward!ForwarderWrites, Forward!RaceKills
    <2>2. ASSUME Forward!ForwarderReads PROVE up' \in Seq(Nat)
      <3>1. up' = SubSeq(up, BufferFrames + 1, Len(up)) /\ BufferFrames <= Len(up)
        BY <2>2 DEF Forward!ForwarderReads
      <3> QED
        BY <1>t, <3>1, Suffix, SizesAssumption
    <2> QED
      BY <1>9, <1>10, <1>t, <2>1, <2>2
  <1>11. CASE PacketLost
    <2>1. up' \in Seq(Nat)
      BY <1>11, <1>t, LossIsSeq
    <2> QED
      BY <1>9, <1>11, <2>1 DEF PacketLost
  <1>12. CASE UNCHANGED <<captureVars, up>>
    BY <1>9, <1>12, <1>t
  <1> QED
    BY <1>1, <1>2, <1>3, <1>4, <1>5, <1>6, <1>7, <1>8, <1>10, <1>11, <1>12, <1>13, <1>14
    DEF Next, Capture!Next, vars

\* Shares less than a ring apart use different slots.
LEMMA CaptureApart == CaptureInv => CaptureNeverTorn
  <1> SUFFICES ASSUME CaptureInv,
                      NEW p \in written .. written + capturing.want - 1,
                      NEW q \in sent .. sent + sender.fill - 1
               PROVE  Capture!Slot(p) # Capture!Slot(q)
    BY DEF CaptureNeverTorn, Capture!NeverTorn
  <1>1. /\ written \in Nat /\ sent \in Nat /\ capturing.want \in Nat /\ sender.fill \in Nat
        /\ written + capturing.want <= sent + CaptureSlots
        /\ sent + sender.fill <= written
    BY SizesAssumption DEF CaptureInv, Capture!TypeOK
  <1>2. p \in Int /\ q \in Int /\ q < p /\ p - q < CaptureSlots
    BY <1>1, SizesAssumption
  <1> QED
    BY <1>2, Apart, SizesAssumption DEF Capture!Slot

-----------------------------------------------------------------------------
(* The server                                                              *)

\* The forwarder's record.
ForwarderRecord == [pc : {"read", "test", "first"}, buffer : Seq(Nat), freed : BOOLEAN]

\* There is no sender yet, and nothing on the way.
LEMMA ForwardStarts == Init => ForwardInv
  <1> SUFFICES ASSUME Init PROVE ForwardInv
    OBVIOUS
  <1>1. /\ alive = TRUE /\ senders = <<>> /\ forwarder = Forward!Waiting
        /\ down = <<>>
    BY DEF Init, Forward!Init
  <1>2. <<>> \in Seq(Client \cup {Forward!Null}) /\ <<>> \in Seq(Nat) /\ Len(<<>>) = 0
    BY EmptySeq
  <1>4. alive \in BOOLEAN
    BY <1>1
  <1>5. /\ senders \in Seq(Client \cup {Forward!Null})
        /\ Len(senders) <= MaxJoins
        /\ forwarder \in ForwarderRecord /\ down \in Seq(Nat)
    BY <1>1, <1>2, ClientAssumption DEF ForwarderRecord, Forward!Waiting
  <1>6. Forward!TypeOK
    BY <1>4, <1>5, Zenon DEF Forward!TypeOK, ForwarderRecord
  <1> QED
    BY <1>1, <1>5, <1>6 DEF ForwardInv, Forward!Waiting

\* push_back() leaves the first sender the first.
LEMMA ForwardStep == CaptureInv /\ ForwardInv /\ [Next]_vars => ForwardInv'
  <1> SUFFICES ASSUME CaptureInv, ForwardInv, [Next]_vars PROVE ForwardInv'
    OBVIOUS
  <1>a. alive \in BOOLEAN
    BY Zenon DEF ForwardInv, Forward!TypeOK
  <1>t. /\ senders \in Seq(Client \cup {Forward!Null})
        /\ Len(senders) <= MaxJoins
        /\ forwarder \in ForwarderRecord /\ down \in Seq(Nat)
    BY Zenon DEF ForwardInv, Forward!TypeOK, ForwarderRecord
  <1>i. /\ forwarder.pc = "first" => senders # <<>>
        /\ forwarder.pc = "read" => forwarder.buffer = <<>>
    BY DEF ForwardInv
  <1>u. up \in Seq(Nat)
    BY CaptureMeans
  <1>w. Forward!Waiting \in ForwarderRecord
    BY EmptySeq DEF Forward!Waiting, ForwarderRecord
  <1>k. ASSUME alive' \in BOOLEAN, senders' \in Seq(Client \cup {Forward!Null}),
               Len(senders') <= MaxJoins, forwarder' \in ForwarderRecord,
               down' \in Seq(Nat),
               forwarder'.pc = "first" => senders' # <<>>,
               forwarder'.pc = "read" => forwarder'.buffer = <<>>
        PROVE  ForwardInv'
    <2>1. Forward!TypeOK'
      BY <1>k, Zenon DEF Forward!TypeOK, ForwarderRecord
    <2> QED
      BY <1>k, <2>1, Zenon DEF ForwardInv
  <1> USE DEF ForwarderRecord
  <1>1. ASSUME NEW c \in Client, Forward!AddClientTransmission(c) PROVE ForwardInv'
    <2>1. PICK s \in {c, Forward!Null} : senders' = Append(senders, s)
      BY <1>1 DEF Forward!AddClientTransmission
    <2>2. /\ senders' \in Seq(Client \cup {Forward!Null}) /\ senders' # <<>>
          /\ Len(senders') = Len(senders) + 1
      <3>1. s \in Client \cup {Forward!Null}
        OBVIOUS
      <3>2. Len(senders) \in Nat /\ (senders # <<>> => Len(senders) # 0)
        BY <1>t, EmptySeq, LenProperties
      <3> QED
        <4> DEFINE T == Client \cup {Forward!Null}
        <4>1. senders \in Seq(T) /\ s \in T
          BY <1>t, <3>1
        <4> HIDE DEF T
        <4>2. Append(senders, s) \in Seq(T) /\ Append(senders, s) # <<>>
              /\ Len(Append(senders, s)) = Len(senders) + 1
          BY <4>1, AppendProperties
        <4> QED
          BY <2>1, <4>2 DEF T
    <2>3. Len(senders) < MaxJoins /\ alive' = alive /\ down' = down
      BY <1>1 DEF Forward!AddClientTransmission
    <2>5. Len(senders') <= MaxJoins
      BY <1>t, <2>2, <2>3, LenProperties, ClientAssumption
    <2>6. PICK f \in BOOLEAN : forwarder' = [forwarder EXCEPT !.freed = f]
      BY <1>1, <1>t DEF Forward!AddClientTransmission
    <2>7. /\ forwarder' \in ForwarderRecord
          /\ forwarder'.pc = forwarder.pc /\ forwarder'.buffer = forwarder.buffer
      BY <1>t, <2>6
    <2>8. alive' \in BOOLEAN
      BY <1>a, <2>3
    <2> QED
      BY <1>i, <1>k, <1>t, <2>2, <2>3, <2>5, <2>7, <2>8
  <1>2. CASE Forward!ForwarderReads
    <2>1. /\ forwarder' = [Forward!Waiting EXCEPT !.pc = "test", !.buffer = SubSeq(up, 1, BufferFrames)]
          /\ BufferFrames <= Len(up) /\ UNCHANGED <<alive, senders, down>>
      BY <1>2 DEF Forward!ForwarderReads
    <2>2. SubSeq(up, 1, BufferFrames) \in Seq(Nat)
      BY <1>u, <2>1, Suffix, SizesAssumption
    <2>3. forwarder' = [pc |-> "test", buffer |-> SubSeq(up, 1, BufferFrames), freed |-> FALSE]
      BY <2>1 DEF Forward!Waiting
    <2>4. forwarder' \in ForwarderRecord /\ forwarder'.pc = "test"
      BY <2>2, <2>3
    <2> QED
      BY <1>a, <1>i, <1>k, <1>t, <2>1, <2>2, <2>3, <2>4
  <1>3. CASE Forward!ForwarderLooks
    <2>1. /\ forwarder' = IF senders = <<>> THEN Forward!Waiting ELSE [forwarder EXCEPT !.pc = "first"]
          /\ UNCHANGED <<alive, senders, down>>
      BY <1>3 DEF Forward!ForwarderLooks
    <2>2. CASE senders = <<>>
      BY <1>t, <1>w, <2>1, <2>2 DEF ForwardInv, Forward!TypeOK, Forward!Waiting
    <2>3. CASE senders # <<>>
      <3>1. forwarder' \in ForwarderRecord /\ forwarder'.pc = "first"
        BY <1>t, <2>1, <2>3
      <3> QED
        BY <1>t, <2>1, <2>3, <3>1 DEF ForwardInv, Forward!TypeOK
    <2> QED
      BY <2>2, <2>3
  <1>4. CASE Forward!ForwarderWrites
    <2>1. /\ forwarder.pc = "first"
          /\ down' = IF senders[1] = Listener THEN down \o forwarder.buffer ELSE down
          /\ forwarder' = Forward!Waiting /\ UNCHANGED <<alive, senders>>
      BY <1>4 DEF Forward!ForwarderWrites
    <2>2. senders # <<>> /\ senders[1] \in Client \cup {Forward!Null}
      BY <1>t, <2>1, ElementOfSeq, EmptySeq, LenProperties DEF ForwardInv
    <2>3. down' \in Seq(Nat)
      <3>1. forwarder.buffer \in Seq(Nat)
        BY <1>t
      <3> QED
        BY <1>t, <2>1, <3>1, ConcatProperties
    <2> QED
      BY <1>t, <1>w, <2>1, <2>2, <2>3 DEF ForwardInv, Forward!TypeOK, Forward!Waiting
  <1>5. CASE Forward!RaceKills
    <2>1. /\ alive' = FALSE /\ forwarder' = Forward!Waiting
          /\ UNCHANGED <<senders, down>>
      BY <1>5 DEF Forward!RaceKills
    <2> QED
      BY <1>t, <1>w, <2>1 DEF ForwardInv, Forward!TypeOK, Forward!Waiting
  <1>6. CASE UNCHANGED forwardVars /\ down' \in Seq(Nat)
    BY <1>6 DEF ForwardInv, Forward!TypeOK, forwardVars
  <1>7. CASE Playback!Next /\ UNCHANGED forwardVars
    <2>1. UNCHANGED down \/ Playback!ReceiverReads
      BY <1>7 DEF Playback!Next, Playback!Receiver, Playback!ReceiverAdvances, Playback!Callback,
        Playback!CallbackFindsTooLittle, Playback!CallbackFindsEnough,
        Playback!CallbackWritesSilence, Playback!CallbackCopies,
        Playback!CallbackMiswrites, Playback!CallbackEnds
    <2>2. ASSUME Playback!ReceiverReads PROVE down' \in Seq(Nat)
      <3>1. down' = SubSeq(down, BufferFrames + 1, Len(down)) /\ BufferFrames <= Len(down)
        BY <2>2 DEF Playback!ReceiverReads
      <3> QED
        BY <1>t, <3>1, Suffix, SizesAssumption
    <2> QED
      BY <1>6, <1>7, <1>t, <2>1, <2>2
  <1>8. CASE UNCHANGED <<forwardVars, down>>
    BY <1>6, <1>8, <1>t
  <1> QED
    BY <1>1, <1>2, <1>3, <1>4, <1>5, <1>7, <1>8
    DEF Next, Forward!Next, vars, playbackVars, PacketLost

-----------------------------------------------------------------------------
(* The playback ring                                                       *)

\* The remainder is the one number it can be.
LEMMA Remainder ==
  ASSUME NEW n \in Nat \ {0}, NEW k \in Int, NEW r \in 0 .. n - 1, NEW a \in Int,
         a = n * k + r
  PROVE  a % n = r /\ a \div n = k
  <1> DEFINE l == a \div n
             m == a % n
  <1>1. l \in Int /\ m \in 0 .. n - 1 /\ a = n * l + m
    BY DivMod
  <1> HIDE DEF l, m
  <1>2. r - m = n * l - n * k /\ -n < r - m /\ r - m < n /\ r - m \in Int
    BY <1>1
  <1>3. l = k
    BY ONLY <1>1, <1>2, Multiples, n \in Nat \ {0}, k \in Int
  <1> QED
    BY <1>1, <1>3 DEF l, m

\* Multiples, by their factor.
LEMMA MultipleOf ==
  ASSUME NEW a \in Int
  PROVE  Multiple(a) <=> \E k \in Int : a = Channels * k
  <1>1. ASSUME Multiple(a) PROVE \E k \in Int : a = Channels * k
    <2>1. a = Channels * (a \div Channels) + (a % Channels) /\ a \div Channels \in Int
      BY DivMod, SizesAssumption
    <2>2. a = Channels * (a \div Channels)
      BY <1>1, <2>1, SizesAssumption DEF Multiple
    <2> QED
      BY <2>1, <2>2
  <1>2. ASSUME NEW k \in Int, a = Channels * k PROVE Multiple(a)
    BY <1>2, Remainder, SizesAssumption DEF Multiple
  <1> QED
    BY <1>1, <1>2

\* Whole frames added and taken away are whole frames.
LEMMA MultipleSum ==
  ASSUME NEW a \in Int, NEW b \in Int, Multiple(a), Multiple(b)
  PROVE  Multiple(a + b) /\ Multiple(a - b)
  <1>1. PICK k \in Int : a = Channels * k
    BY MultipleOf
  <1>2. PICK l \in Int : b = Channels * l
    BY MultipleOf
  <1>3. a + b = Channels * (k + l) /\ a - b = Channels * (k - l)
    BY <1>1, <1>2, SizesAssumption
  <1>4. k + l \in Int /\ k - l \in Int /\ a + b \in Int /\ a - b \in Int
    OBVIOUS
  <1> QED
    BY <1>3, <1>4, MultipleOf

\* The frame of position p begins behind any multiple that p does.
LEMMA FrameStart ==
  ASSUME NEW b \in Int, Multiple(b), NEW p \in Int, b <= p
  PROVE  /\ First(p) \in Int /\ b <= First(p) /\ First(p) <= p /\ Multiple(First(p))
         /\ p % Channels \in 0 .. Channels - 1
         /\ (p - b) % Channels = p % Channels
         /\ (First(p) - b) \div Channels = (p - b) \div Channels
         /\ (First(p) - b) % Channels = 0
         /\ First(p) % Channels = 0
  <1> DEFINE r == p % Channels
  <1>1. PICK k \in Int : p = Channels * k + r
    BY DivMod, SizesAssumption
  <1>2. r \in 0 .. Channels - 1
    BY DivMod, SizesAssumption
  <1>3. PICK l \in Int : b = Channels * l
    BY MultipleOf
  <1> HIDE DEF r
  <1>4. p - b = Channels * (k - l) + r /\ First(p) = Channels * k
    BY <1>1, <1>2, <1>3, SizesAssumption DEF First, r
  <1>5. First(p) - b = Channels * (k - l) + 0 /\ First(p) \in Int /\ First(p) <= p
    BY <1>1, <1>2, <1>3, <1>4, SizesAssumption
  <1>6. k - l >= 0
    <2> SUFFICES ASSUME l - k >= 1 PROVE FALSE
      OBVIOUS
    <2>1. Channels * (l - k) >= Channels
      BY SizesAssumption
    <2>2. Channels * (l - k) <= r
      BY <1>1, <1>2, <1>3, SizesAssumption
    <2> QED
      BY <1>2, <2>1, <2>2, SizesAssumption
  <1>7. b <= First(p)
    <2>1. Channels * (k - l) >= 0
      BY <1>6, SizesAssumption
    <2>2. Channels * (k - l) \in Int
      BY SizesAssumption
    <2> QED
      BY ONLY <1>5, <2>1, <2>2, b \in Int
  <1>e. k - l \in Int /\ p - b \in Int /\ First(p) - b \in Int /\ 0 \in 0 .. Channels - 1
    BY <1>5, SizesAssumption
  <1>8. (p - b) % Channels = r /\ (p - b) \div Channels = k - l
    <2>1. p - b = Channels * (k - l) + r
      BY <1>4
    <2>2. Channels \in Nat \ {0}
      BY SizesAssumption
    <2> DEFINE q == k - l
               a == p - b
    <2>3. q \in Int /\ a \in Int /\ a = Channels * q + r
      BY <1>e, <2>1
    <2> HIDE DEF q, a
    <2>4. a % Channels = r /\ a \div Channels = q
      BY ONLY <1>2, <2>2, <2>3, Remainder
    <2> QED
      BY <2>4 DEF q, a
  <1>9. (First(p) - b) % Channels = 0 /\ (First(p) - b) \div Channels = k - l
    BY <1>5, <1>e, Remainder, SizesAssumption
  <1> QED
    BY <1>2, <1>4, <1>5, <1>7, <1>8, <1>9, MultipleOf DEF r, Multiple

\* Where Queue() puts the sample at position p, for the positions of one round.
LEMMA PlaceInBuffer ==
  ASSUME NEW b \in Int, NEW p \in Int, b - PlaybackSlots <= p, p < b + PlaybackSlots
  PROVE  (Playback!Slot(p) - b) % PlaybackSlots = IF p < b THEN p - b + PlaybackSlots ELSE p - b
  <1> DEFINE s == Playback!Slot(p)
             n == PlaybackSlots
  <1>1. n \in Nat \ {0}
    BY SizesAssumption
  <1>2. PICK k \in Int : p = n * k + s /\ s \in Int
    <2>1. p = n * (p \div n) + (p % n) /\ p \div n \in Int /\ p % n \in Int
      BY <1>1, DivMod
    <2> QED
      BY <2>1 DEF Playback!Slot
  <1> HIDE DEF s, n
  <1>3. CASE p < b
    <2>1. s - b = n * (-(k + 1)) + ((p - b) + n) /\ -(k + 1) \in Int
      BY <1>1, <1>2
    <2>2. (p - b) + n \in 0 .. n - 1
      BY <1>1, <1>3 DEF n
    <2> DEFINE a == s - b
               q == -(k + 1)
               r == (p - b) + n
    <2>3. a \in Int /\ q \in Int /\ r \in 0 .. n - 1 /\ a = n * q + r
      BY <1>1, <1>2, <2>1, <2>2
    <2> HIDE DEF a, q, r
    <2>4. a % n = r
      BY ONLY <1>1, <2>3, Remainder
    <2> QED
      BY <1>3, <2>4 DEF a, r, s, n
  <1>4. CASE p >= b
    <2>1. s - b = n * (-k) + (p - b) /\ -k \in Int
      BY <1>1, <1>2
    <2>2. p - b \in 0 .. n - 1
      BY <1>1, <1>4 DEF n
    <2> DEFINE a == s - b
               q == -k
               r == p - b
    <2>3. a \in Int /\ q \in Int /\ r \in 0 .. n - 1 /\ a = n * q + r
      BY <1>1, <1>2, <2>1, <2>2
    <2> HIDE DEF a, q, r
    <2>4. a % n = r
      BY ONLY <1>1, <2>3, Remainder
    <2> QED
      BY <1>4, <2>4 DEF a, r, s, n
  <1> QED
    BY <1>3, <1>4

\* The records of the playback side.
ReceiverRecord == [pc : {"read", "advance"}, count : 0 .. PlaybackSlots]
PlayingRecord == [pc : {"rest", "silence", "write"}, count : 0 .. PlaybackSlots,
                  left : Nat, at : Nat]

\* Nothing is queued, and the speaker is silent on every channel.
LEMMA PlaybackStarts == Init => PlaybackInv
  <1> SUFFICES ASSUME Init PROVE PlaybackInv
    OBVIOUS
  <1>1. /\ outRing = [i \in 0 .. PlaybackSlots - 1 |-> Playback!NoSample]
        /\ queued = 0 /\ taken = 0 /\ down = <<>> /\ heard = <<>>
        /\ receiver = [pc |-> "read", count |-> 0]
        /\ playing = [pc |-> "rest", count |-> 0, left |-> 0, at |-> 0]
        /\ speaker = [c \in 0 .. Channels - 1 |-> [Playback!NoSample EXCEPT !.ch = c]]
    BY DEF Init, Forward!Init, Playback!Init, Playback!Listening, Playback!Resting
  <1>2. \A c \in 0 .. Channels - 1 : speaker[c] = [n |-> 0, ch |-> c]
    BY <1>1 DEF Playback!NoSample
  <1>3. 0 \in 0 .. Channels - 1 /\ 0 \in 0 .. PlaybackSlots /\ Multiple(0)
    BY SizesAssumption, MultipleOf
  <1>4. Playback!NoSample \in Playback!Sample
    BY <1>3 DEF Playback!Sample, Playback!NoSample
  <1>5. speaker \in [0 .. Channels - 1 -> Playback!Sample]
    <2>1. ASSUME NEW c \in 0 .. Channels - 1 PROVE speaker[c] \in Playback!Sample
      <3>1. [n |-> 0, ch |-> c] \in Playback!Sample
        BY DEF Playback!Sample
      <3> QED
        BY <3>1, <1>2
    <2> QED
      BY <1>1, <2>1
  <1>6. down \in Seq(Nat) /\ heard \in Seq(Nat)
    BY <1>1, EmptySeq
  <1>7. Playback!TypeOK
    BY <1>1, <1>3, <1>4, <1>5, <1>6 DEF Playback!TypeOK
  <1>8. ChannelsAligned
    BY <1>2, <1>3, <1>5 DEF ChannelsAligned, Playback!ChannelsAligned
  <1>9. Filled = {} /\ taken + (playing.count * Channels) <= queued
    BY <1>1, SizesAssumption DEF Filled
  <1> QED
    BY <1>1, <1>3, <1>7, <1>8, <1>9, SizesAssumption DEF PlaybackInv

\* What PlaybackInv says, piece by piece.
LEMMA PlaybackMeans ==
  ASSUME PlaybackInv
  PROVE  /\ outRing \in [0 .. PlaybackSlots - 1 -> Playback!Sample]
         /\ down \in Seq(Nat) /\ heard \in Seq(Nat)
         /\ speaker \in [0 .. Channels - 1 -> Playback!Sample]
         /\ receiver \in ReceiverRecord /\ playing \in PlayingRecord
         /\ queued \in Nat /\ taken \in Nat /\ taken <= queued
         /\ receiver.count \in Nat /\ receiver.count <= PlaybackSlots
         /\ playing.count \in Nat /\ playing.left \in Nat /\ playing.at \in Nat
         /\ Channels \in Nat \ {0} /\ PlaybackSlots \in Nat \ {0} /\ BufferFrames \in Nat \ {0}
  <1>1. Playback!TypeOK
    BY DEF PlaybackInv
  <1>2. /\ outRing \in [0 .. PlaybackSlots - 1 -> Playback!Sample]
        /\ down \in Seq(Nat) /\ heard \in Seq(Nat)
        /\ speaker \in [0 .. Channels - 1 -> Playback!Sample]
        /\ receiver \in ReceiverRecord /\ playing \in PlayingRecord
        /\ queued \in Nat /\ taken \in 0 .. queued
    BY <1>1, Zenon DEF Playback!TypeOK, ReceiverRecord, PlayingRecord
  <1>3. taken \in Nat /\ taken <= queued
    BY <1>2
  <1>4. /\ receiver.count \in Nat /\ receiver.count <= PlaybackSlots
        /\ playing.count \in Nat /\ playing.left \in Nat /\ playing.at \in Nat
    BY <1>2, SizesAssumption DEF ReceiverRecord, PlayingRecord
  <1> QED
    BY <1>2, <1>3, <1>4, SizesAssumption

\* What the device was given last is one frame.
LEMMA SpeakerAligned ==
  ASSUME PlaybackInv
  PROVE  \A c \in 0 .. Channels - 1 : speaker[c] = [n |-> speaker[0].n, ch |-> c]
  BY PlaybackMeans DEF PlaybackInv, ChannelsAligned, Playback!ChannelsAligned

\* What ReceiverReads leaves in the ring: what was there, and the buffer behind it.
LEMMA ReadsQueue ==
  ASSUME PlaybackInv, Playback!ReceiverReads
  PROVE  /\ receiver' \in ReceiverRecord /\ receiver'.pc = "advance"
         /\ outRing' \in [0 .. PlaybackSlots - 1 -> Playback!Sample]
         /\ down' \in Seq(Nat) /\ down' = SubSeq(down, BufferFrames + 1, Len(down))
         /\ BufferFrames <= Len(down) /\ receiver.count = 0
         /\ UNCHANGED <<queued, taken, playing, speaker, heard>>
         /\ Multiple(receiver'.count) /\ queued + receiver'.count <= taken + PlaybackSlots
         /\ \A p \in taken .. queued - 1 : OutSample(p)' = OutSample(p)
         /\ \A p \in queued .. queued + receiver'.count - 1 :
              /\ (p - queued) \div Channels + 1 \in 1 .. BufferFrames
              /\ OutSample(p)' = [n |-> down[(p - queued) \div Channels + 1],
                                  ch |-> (p - queued) % Channels]
  <1> DEFINE room == PlaybackSlots - (queued - taken)
             size == BufferFrames * Channels
             count == Playback!Lower(room, size)
             frames == SubSeq(down, 1, BufferFrames)
             Index(s) == (s - queued) % PlaybackSlots
  <1>1. /\ receiver.pc = "read" /\ Len(down) >= BufferFrames
        /\ outRing' = [s \in DOMAIN outRing |->
             IF Index(s) < count THEN Playback!Interleaved(frames, Index(s)) ELSE outRing[s]]
        /\ receiver' = [pc |-> "advance", count |-> count]
        /\ down' = SubSeq(down, BufferFrames + 1, Len(down))
        /\ UNCHANGED <<queued, taken, playing, speaker, heard>>
    BY DEF Playback!ReceiverReads, Playback!Queue, Playback!Room
  <1> HIDE DEF frames
  <1>t. /\ outRing \in [0 .. PlaybackSlots - 1 -> Playback!Sample]
        /\ down \in Seq(Nat) /\ queued \in Nat /\ taken \in Nat /\ taken <= queued
        /\ Channels \in Nat \ {0} /\ PlaybackSlots \in Nat \ {0} /\ BufferFrames \in Nat \ {0}
    BY PlaybackMeans
  <1>2. receiver.count = 0 /\ queued <= taken + PlaybackSlots
    BY <1>1, <1>t DEF PlaybackInv
  <1>3. size \in Nat /\ Multiple(size)
    BY <1>t, Product, MultipleOf
  <1>4. Multiple(room)
    <2>1. Multiple(queued - taken) /\ queued - taken \in Int
      BY <1>t, MultipleSum DEF PlaybackInv
    <2>2. Multiple(PlaybackSlots) /\ PlaybackSlots \in Int
      BY SizesAssumption DEF Multiple
    <2> QED
      BY ONLY <2>1, <2>2, MultipleSum
  <1>5. count \in 0 .. PlaybackSlots /\ Multiple(count) /\ count <= size /\ queued + count <= taken + PlaybackSlots
    <2>1. room \in 0 .. PlaybackSlots /\ queued + room <= taken + PlaybackSlots
      BY <1>2, <1>t
    <2> HIDE DEF room, size
    <2> QED
      BY <2>1, <1>t, <1>3, <1>4 DEF Playback!Lower
  <1> HIDE DEF room, size, count
  <1>6. \A i \in 1 .. BufferFrames : frames[i] = down[i] /\ down[i] \in Nat
    BY <1>t, <1>1, SubSeqProperties, ElementOfSeq, LenProperties DEF frames
  <1>7. ASSUME NEW i \in Nat, i < count
        PROVE  /\ i \div Channels + 1 \in 1 .. BufferFrames
               /\ Playback!Interleaved(frames, i)
                    = [n |-> down[i \div Channels + 1], ch |-> i % Channels]
               /\ Playback!Interleaved(frames, i) \in Playback!Sample
    <2> DEFINE k == i \div Channels
    <2>1. /\ i = Channels * k + (i % Channels) /\ k \in Int
          /\ i % Channels \in 0 .. Channels - 1
      BY <1>t, DivMod
    <2> HIDE DEF k
    <2>2. k >= 0
      <3> SUFFICES ASSUME k <= -1 PROVE FALSE
        BY <2>1
      <3>1. Channels * k <= -Channels
        BY <1>t, <2>1
      <3> QED
        BY <1>t, <2>1, <3>1
    <2>3. k < BufferFrames
      <3> SUFFICES ASSUME BufferFrames <= k PROVE FALSE
        BY <1>t, <2>1
      <3>1. BufferFrames * Channels <= k * Channels
        BY <1>t, <2>1, <2>2, Product
      <3> QED
        BY <1>t, <1>5, <1>7, <2>1, <3>1 DEF size
    <2>4. k + 1 \in 1 .. BufferFrames
      BY <1>t, <2>1, <2>2, <2>3
    <2>5. Playback!Interleaved(frames, i) = [n |-> down[k + 1], ch |-> i % Channels]
      BY <1>6, <2>4 DEF Playback!Interleaved, k
    <2>6. [n |-> down[k + 1], ch |-> i % Channels] \in Playback!Sample
      BY <1>6, <2>1, <2>4 DEF Playback!Sample
    <2> QED
      BY <2>4, <2>5, <2>6 DEF k
  <1>8. outRing' \in [0 .. PlaybackSlots - 1 -> Playback!Sample]
    <2>1. ASSUME NEW s \in 0 .. PlaybackSlots - 1
          PROVE  Index(s) \in Nat
      BY <1>t, DivMod
    <2>2. ASSUME NEW s \in 0 .. PlaybackSlots - 1, Index(s) < count
          PROVE  Playback!Interleaved(frames, Index(s)) \in Playback!Sample
      BY <1>7, <2>1, <2>2
    <2> HIDE DEF Index
    <2> QED
      BY <1>t, <1>1, <2>2
  <1>9. ASSUME NEW p \in Int PROVE Playback!Slot(p) \in 0 .. PlaybackSlots - 1
    BY <1>t, DivMod DEF Playback!Slot
  <1>10. ASSUME NEW p \in taken .. queued - 1 PROVE OutSample(p)' = OutSample(p)
    <2>1. p \in Int /\ queued - PlaybackSlots <= p /\ p < queued
      BY <1>t, <1>2
    <2>2. Index(Playback!Slot(p)) = p - queued + PlaybackSlots
      BY <1>t, <2>1, PlaceInBuffer
    <2>3. ~ (Index(Playback!Slot(p)) < count)
      BY <1>t, <1>5, <2>1, <2>2
    <2> HIDE DEF Index
    <2> QED
      BY <1>t, <1>1, <1>9, <2>1, <2>3 DEF OutSample
  <1>11. ASSUME NEW p \in queued .. queued + count - 1
         PROVE  /\ (p - queued) \div Channels + 1 \in 1 .. BufferFrames
                /\ OutSample(p)' = [n |-> down[(p - queued) \div Channels + 1],
                                    ch |-> (p - queued) % Channels]
    <2>1. p \in Int /\ queued - PlaybackSlots <= p /\ queued <= p /\ p < queued + PlaybackSlots
          /\ p - queued \in Nat /\ p - queued < count
      BY <1>t, <1>5
    <2>2. Index(Playback!Slot(p)) = p - queued
      BY <1>t, <2>1, PlaceInBuffer
    <2> HIDE DEF Index
    <2>3. OutSample(p)' = Playback!Interleaved(frames, p - queued)
      BY <1>t, <1>1, <1>9, <2>1, <2>2 DEF OutSample
    <2> QED
      BY <2>1, <2>3, <1>7
  <1>12. down' \in Seq(Nat)
    BY <1>t, <1>1, Suffix
  <1>13. receiver' \in ReceiverRecord /\ receiver'.pc = "advance" /\ receiver'.count = count
    BY <1>1, <1>5 DEF ReceiverRecord
  <1> QED
    BY <1>1, <1>2, <1>5, <1>8, <1>10, <1>11, <1>12, <1>13

\* Whole frames lie in the ring, each sample where its channel belongs.
WholeFrames ==
  \A p \in Filled : OutSample(p) = [n |-> OutSample(First(p)).n, ch |-> p % Channels]

\* What read_samples() queues is whole frames too, and what was queued stays so.
LEMMA ReadsWhole ==
  ASSUME PlaybackInv, Playback!ReceiverReads
  PROVE  WholeFrames'
  <1> SUFFICES ASSUME NEW p \in Filled'
               PROVE  OutSample(p)' = [n |-> OutSample(First(p))'.n, ch |-> p % Channels]
    BY DEF WholeFrames, First
  <1>t. /\ queued \in Nat /\ taken \in Nat /\ taken <= queued /\ Channels \in Nat \ {0}
        /\ queued' = queued /\ taken' = taken /\ receiver'.count \in Nat
        /\ receiver.count = 0 /\ Multiple(queued) /\ Multiple(taken)
    BY PlaybackMeans, ReadsQueue DEF ReceiverRecord, PlaybackInv
  <1>1. p \in Int /\ taken <= p /\ p <= queued + receiver'.count - 1
    BY <1>t DEF Filled
  <1>2. CASE p < queued
    <2>1. First(p) \in taken .. queued - 1 /\ p \in taken .. queued - 1
      BY <1>t, <1>1, <1>2, FrameStart
    <2>2. OutSample(p)' = OutSample(p) /\ OutSample(First(p))' = OutSample(First(p))
      BY <2>1, ReadsQueue
    <2>3. p \in Filled
      BY <1>t, <2>1 DEF Filled
    <2> QED
      BY <2>2, <2>3 DEF PlaybackInv
  <1>3. CASE queued <= p
    <2>f. First(p) \in Int /\ queued <= First(p) /\ First(p) <= p
      BY <1>t, <1>1, <1>3, FrameStart
    <2>1. /\ First(p) \in queued .. queued + receiver'.count - 1
          /\ p \in queued .. queued + receiver'.count - 1
      BY <1>t, <1>1, <1>3, <2>f
    <2>2. /\ (p - queued) % Channels = p % Channels
          /\ (First(p) - queued) \div Channels = (p - queued) \div Channels
      BY <1>t, <1>1, <1>3, FrameStart
    <2>3. /\ OutSample(p)' = [n |-> down[(p - queued) \div Channels + 1],
                              ch |-> (p - queued) % Channels]
          /\ OutSample(First(p))' = [n |-> down[(First(p) - queued) \div Channels + 1],
                                     ch |-> (First(p) - queued) % Channels]
      BY <2>1, ReadsQueue
    <2>4. OutSample(First(p))'.n = down[(First(p) - queued) \div Channels + 1]
      BY <2>3
    <2> QED
      BY <2>2, <2>3, <2>4
  <1> QED
    BY <1>t, <1>1, <1>2, <1>3

\* write_callback() gives the device one whole frame, of the frame at read_ptr.
LEMMA CopiesFrame ==
  ASSUME PlaybackInv, Playback!CallbackCopies
  PROVE  /\ playing.pc = "write" /\ playing.left > 0
         /\ playing' = [pc |-> "write", count |-> playing.count, left |-> playing.left - 1,
                        at |-> playing.at + Channels]
         /\ playing.at \in Filled /\ First(playing.at) = playing.at
         /\ playing.at + Channels + (playing.left - 1) * Channels
              = playing.at + (playing.left * Channels)
         /\ speaker' \in [0 .. Channels - 1 -> Playback!Sample]
         /\ \A c \in 0 .. Channels - 1 :
              speaker'[c] = [n |-> OutSample(playing.at).n, ch |-> c]
         /\ UNCHANGED <<down, outRing, queued, taken, receiver>>
  <1>1. /\ playing.pc = "write" /\ playing.left > 0
        /\ UNCHANGED <<down, outRing, queued, taken, receiver>>
    BY DEF Playback!CallbackCopies
  <1>2. playing' = [playing EXCEPT !.left = @ - 1, !.at = @ + Channels]
    BY DEF Playback!CallbackCopies
  <1>3. speaker' = [c \in 0 .. Channels - 1 |-> OutSample(playing.at + c)]
    BY DEF Playback!CallbackCopies, OutSample
  <1>t. /\ outRing \in [0 .. PlaybackSlots - 1 -> Playback!Sample]
        /\ playing \in PlayingRecord /\ queued \in Nat /\ taken \in Nat
        /\ receiver.count \in Nat /\ playing.count \in Nat
        /\ playing.left \in Nat /\ playing.at \in Nat
        /\ Channels \in Nat \ {0} /\ PlaybackSlots \in Nat \ {0}
    BY PlaybackMeans
  <1>i. taken <= playing.at /\ Multiple(playing.at)
    BY <1>1 DEF PlaybackInv
  <1>l. /\ playing.at + (playing.left * Channels) <= taken + (playing.count * Channels)
        /\ taken + (playing.count * Channels) <= queued
    BY <1>1 DEF PlaybackInv
  <1>4. playing' = [pc |-> "write", count |-> playing.count, left |-> playing.left - 1,
                    at |-> playing.at + Channels]
    BY <1>1, <1>2, <1>t DEF PlayingRecord
  <1>5. playing.left * Channels \in Nat /\ Channels <= playing.left * Channels
        /\ playing.count * Channels \in Nat
    BY <1>1, <1>t, Product
  <1>6. ASSUME NEW c \in 0 .. Channels - 1
        PROVE  /\ playing.at + c \in Filled
               /\ (playing.at + c) % Channels = c /\ First(playing.at + c) = playing.at
    <2>1. playing.at + c \in Filled
      <3>1. playing.at + Channels <= queued
        <4> DEFINE rest == playing.left * Channels
                   size == playing.count * Channels
        <4>1. /\ rest \in Nat /\ size \in Nat /\ Channels <= rest
              /\ playing.at + rest <= taken + size /\ taken + size <= queued
          BY <1>5, <1>l
        <4> HIDE DEF rest, size
        <4> QED
          BY ONLY <1>t, <4>1
      <3> QED
        <4> DEFINE more == receiver.count
                   at == playing.at
        <4>1. /\ at \in Nat /\ taken \in Nat /\ queued \in Nat /\ more \in Nat
              /\ Channels \in Nat \ {0} /\ taken <= at /\ at + Channels <= queued
          BY <1>i, <1>t, <3>1
        <4> HIDE DEF more, at
        <4>2. at + c \in taken .. queued + more - 1
          BY ONLY <4>1, c \in 0 .. Channels - 1
        <4> QED
          BY ONLY <4>2 DEF Filled, more, at
    <2>2. PICK k \in Int : playing.at = Channels * k
      <3>1. playing.at \in Int /\ Multiple(playing.at)
        BY <1>i, <1>t
      <3> QED
        BY ONLY <3>1, MultipleOf
    <2> DEFINE a == playing.at + c
    <2>3. a \in Int /\ a = Channels * k + c
      BY <1>t, <2>2
    <2> HIDE DEF a
    <2>4. a % Channels = c
      BY ONLY <1>t, <2>3, c \in 0 .. Channels - 1, k \in Int, Remainder
    <2> QED
      BY <1>t, <2>1, <2>4 DEF First, a
  <1>7. ASSUME NEW c \in 0 .. Channels - 1
        PROVE  speaker'[c] = [n |-> OutSample(playing.at).n, ch |-> c]
    BY <1>3, <1>6 DEF PlaybackInv
  <1>8. /\ playing.at \in Filled /\ First(playing.at) = playing.at
    <2>1. 0 \in 0 .. Channels - 1 /\ playing.at + 0 = playing.at
      BY <1>t
    <2> QED
      BY <2>1, <1>6
  <1>9. OutSample(playing.at) \in Playback!Sample
    <2>1. Playback!Slot(playing.at) \in 0 .. PlaybackSlots - 1
      <3>1. playing.at \in Int /\ PlaybackSlots \in Nat \ {0}
        BY <1>t
      <3> QED
        BY ONLY <3>1, DivMod DEF Playback!Slot
    <2> QED
      BY <1>t, <2>1 DEF OutSample
  <1>10. speaker' \in [0 .. Channels - 1 -> Playback!Sample]
    <2>1. ASSUME NEW c \in 0 .. Channels - 1 PROVE speaker'[c] \in Playback!Sample
      <3>1. [n |-> OutSample(playing.at).n, ch |-> c] \in Playback!Sample
        BY <1>9 DEF Playback!Sample
      <3> QED
        BY <1>7, <3>1
    <2> QED
      BY <1>3, <2>1
  <1>11. playing.at + Channels + (playing.left - 1) * Channels
           = playing.at + (playing.left * Channels)
    BY <1>t
  <1> QED
    BY <1>1, <1>4, <1>7, <1>8, <1>10, <1>11

\* What the device was given only grows.
LEMMA HeardGrows ==
  ASSUME PlaybackInv, Playback!CallbackCopies
  PROVE  /\ heard' \in Seq(Nat)
         /\ \/ heard' = heard
            \/ OutSample(playing.at).n # 0 /\ heard' = Append(heard, OutSample(playing.at).n)
  <1>1. 0 \in 0 .. Channels - 1
    BY SizesAssumption
  <1>2. speaker' \in [0 .. Channels - 1 -> Playback!Sample] /\ speaker'[0].n = OutSample(playing.at).n
    BY <1>1, CopiesFrame
  <1>3. speaker'[0].n \in Nat
    BY <1>1, <1>2 DEF Playback!Sample
  <1>4. heard' = IF speaker'[0].n = 0 THEN heard ELSE Append(heard, speaker'[0].n)
    BY DEF Playback!CallbackCopies
  <1>5. heard \in Seq(Nat)
    BY PlaybackMeans
  <1>6. heard' \in Seq(Nat)
    BY <1>3, <1>4, <1>5, AppendProperties
  <1> QED
    BY <1>2, <1>4, <1>6

\* The device's and the receiver's steps; the server's and the network's leave the ring.
LEMMA PlaybackStep == PlaybackInv /\ ForwardInv' /\ [Next]_vars => PlaybackInv'
  <1> SUFFICES ASSUME PlaybackInv, ForwardInv', [Next]_vars PROVE PlaybackInv'
    OBVIOUS
  <1>t. /\ outRing \in [0 .. PlaybackSlots - 1 -> Playback!Sample]
        /\ down \in Seq(Nat) /\ speaker \in [0 .. Channels - 1 -> Playback!Sample]
        /\ receiver \in ReceiverRecord /\ playing \in PlayingRecord
    BY PlaybackMeans
  <1>n. /\ queued \in Nat /\ taken \in Nat /\ taken <= queued
        /\ receiver.count \in Nat /\ receiver.count <= PlaybackSlots
        /\ playing.count \in Nat /\ playing.left \in Nat /\ playing.at \in Nat
        /\ Channels \in Nat \ {0} /\ PlaybackSlots \in Nat \ {0} /\ BufferFrames \in Nat \ {0}
    BY PlaybackMeans
  <1>d. down' \in Seq(Nat)
    BY Zenon DEF ForwardInv, Forward!TypeOK
  <1>h. heard' \in Seq(Nat)
    <2>1. heard \in Seq(Nat)
      BY PlaybackMeans
    <2>2. heard' = heard \/ Playback!CallbackCopies
      BY DEF Next, vars, playbackVars, PacketLost, Playback!Next, Playback!Receiver,
        Playback!Callback, Playback!ReceiverReads, Playback!ReceiverAdvances,
        Playback!CallbackFindsTooLittle, Playback!CallbackFindsEnough,
        Playback!CallbackWritesSilence, Playback!CallbackMiswrites, Playback!CallbackEnds
    <2> QED
      BY <2>1, <2>2, HeardGrows
  <1>i. /\ receiver.pc = "read" => receiver.count = 0
        /\ queued + receiver.count <= taken + PlaybackSlots
        /\ Multiple(queued) /\ Multiple(taken) /\ Multiple(receiver.count)
        /\ playing.pc # "write" => playing.count = 0
        /\ playing.pc = "write" => taken <= playing.at /\ Multiple(playing.at)
    BY DEF PlaybackInv
  <1>l. /\ taken + (playing.count * Channels) <= queued
        /\ playing.pc = "write" =>
             playing.at + (playing.left * Channels) <= taken + (playing.count * Channels)
    BY DEF PlaybackInv
  <1>c. ChannelsAligned
    BY DEF PlaybackInv
  <1>w. WholeFrames
    BY DEF PlaybackInv, WholeFrames
  <1>m. \A a \in Int : Multiple(a)' = Multiple(a)
    BY DEF Multiple
  <1>1. CASE Playback!ReceiverReads
    <2>1. /\ receiver' \in ReceiverRecord /\ receiver'.pc = "advance"
          /\ outRing' \in [0 .. PlaybackSlots - 1 -> Playback!Sample]
          /\ queued' = queued /\ taken' = taken /\ playing' = playing /\ speaker' = speaker
          /\ Multiple(receiver'.count) /\ queued + receiver'.count <= taken + PlaybackSlots
      BY <1>1, ReadsQueue
    <2>2. WholeFrames'
      BY <1>1, ReadsWhole
    <2>3. Playback!TypeOK'
      BY <1>t, <1>n, <1>d, <1>h, <2>1 DEF Playback!TypeOK, ReceiverRecord, PlayingRecord
    <2>4. ChannelsAligned'
      BY <1>c, <2>1 DEF ChannelsAligned, Playback!ChannelsAligned
    <2> QED
      BY <1>i, <1>l, <2>1, <2>2, <2>3, <2>4 DEF PlaybackInv, WholeFrames, Multiple
  <1>2. CASE Playback!ReceiverAdvances
    <2>1. /\ queued' = queued + receiver.count /\ receiver' = [pc |-> "read", count |-> 0]
          /\ outRing' = outRing /\ taken' = taken /\ playing' = playing /\ speaker' = speaker
      BY <1>2 DEF Playback!ReceiverAdvances, Playback!Listening
    <2>2. /\ queued' \in Nat /\ taken <= queued' /\ queued <= queued'
          /\ queued' + 0 = queued + receiver.count
      BY <1>n, <2>1
    <2>3. Playback!TypeOK'
      BY <1>t, <1>n, <1>d, <1>h, <2>1, <2>2 DEF Playback!TypeOK, PlayingRecord
    <2>4. Multiple(queued') /\ Multiple(0)
      <3>1. Multiple(queued + receiver.count)
        <4>1. /\ queued \in Int /\ receiver.count \in Int
              /\ Multiple(queued) /\ Multiple(receiver.count)
          BY <1>n, <1>i
        <4> QED
          BY ONLY <4>1, MultipleSum
      <3>2. Multiple(0)
        BY MultipleOf, SizesAssumption
      <3> QED
        BY <2>1, <3>1, <3>2
    <2>5. Filled' = Filled
      BY <1>n, <2>1, <2>2 DEF Filled
    <2>6. WholeFrames'
      BY <1>w, <2>1, <2>5 DEF WholeFrames, OutSample, First
    <2>7. taken + (playing.count * Channels) <= queued'
      BY <1>n, <1>l, <2>2, Product
    <2>8. ChannelsAligned'
      BY <1>c, <2>1 DEF ChannelsAligned, Playback!ChannelsAligned
    <2> QED
      BY <1>i, <1>l, <2>1, <2>2, <2>3, <2>4, <2>6, <2>7, <2>8 DEF PlaybackInv, WholeFrames, Multiple
  <1>s. ASSUME UNCHANGED <<outRing, queued, taken, receiver, speaker>>,
               playing' \in PlayingRecord,
               playing'.pc # "write" => playing'.count = 0,
               taken + (playing'.count * Channels) <= queued,
               playing'.pc = "write" =>
                 /\ taken <= playing'.at /\ Multiple(playing'.at)
                 /\ playing'.at + (playing'.left * Channels) <= taken + (playing'.count * Channels)
        PROVE  PlaybackInv'
    <2>1. Playback!TypeOK'
      <3>1. /\ outRing' \in [0 .. PlaybackSlots - 1 -> Playback!Sample]
            /\ speaker' \in [0 .. Channels - 1 -> Playback!Sample]
            /\ receiver' \in ReceiverRecord /\ queued' \in Nat /\ taken' \in 0 .. queued'
        BY <1>t, <1>n, <1>s
      <3> QED
        BY <1>d, <1>h, <1>s, <3>1, Zenon DEF Playback!TypeOK, PlayingRecord, ReceiverRecord
    <2>2. WholeFrames' /\ ChannelsAligned'
      BY <1>w, <1>c, <1>s
      DEF WholeFrames, Filled, OutSample, First, ChannelsAligned, Playback!ChannelsAligned
    <2> QED
      BY <1>i, <1>l, <1>s, <2>1, <2>2 DEF PlaybackInv, WholeFrames, Multiple
  <1>3. ASSUME NEW min \in Minima, Playback!CallbackFindsTooLittle(min) PROVE PlaybackInv'
    <2>1. /\ playing' = [Playback!Resting EXCEPT !.pc = "silence", !.left = min]
          /\ UNCHANGED <<outRing, queued, taken, receiver, speaker>>
      BY <1>3 DEF Playback!CallbackFindsTooLittle
    <2>2. playing' = [pc |-> "silence", count |-> 0, left |-> min, at |-> 0]
      BY <2>1 DEF Playback!Resting
    <2>3. min \in Nat /\ taken + (0 * Channels) <= queued
      BY <1>n, ClientAssumption
    <2>4. playing' \in PlayingRecord /\ playing'.pc = "silence" /\ playing'.count = 0
      BY <1>n, <2>2, <2>3 DEF PlayingRecord
    <2> QED
      BY <1>s, <2>1, <2>3, <2>4
  <1>4. ASSUME NEW min \in Minima, NEW max \in 1 .. PlaybackSlots \div Channels,
               Playback!CallbackFindsEnough(min, max)
        PROVE  PlaybackInv'
    <2> DEFINE filled == (queued - taken) \div Channels
               count == Playback!Lower(max, filled)
    <2>1. /\ playing' = [pc |-> "write", count |-> count, left |-> count, at |-> taken]
          /\ UNCHANGED <<outRing, queued, taken, receiver, speaker>>
      BY <1>4 DEF Playback!CallbackFindsEnough, Playback!Filled
    <2>2. /\ queued - taken = Channels * filled + ((queued - taken) % Channels)
          /\ filled \in Int /\ (queued - taken) % Channels \in 0 .. Channels - 1
      BY <1>n, DivMod
    <2> HIDE DEF filled
    <2>3. filled \in Nat
      <3> SUFFICES ASSUME filled <= -1 PROVE FALSE
        BY <2>2
      <3>1. Channels * filled <= -Channels
        BY <1>n, <2>2
      <3> QED
        BY <1>n, <2>2, <3>1
    <2>4. count \in Nat /\ count <= filled
      BY <2>3, <1>n, DivMod DEF Playback!Lower
    <2> HIDE DEF count
    <2>5. count * Channels \in Nat /\ count <= count * Channels
          /\ count * Channels <= filled * Channels
      BY <1>n, <2>3, <2>4, Product
    <2>6. taken + (count * Channels) <= queued
      BY <1>n, <2>2, <2>5
    <2>7. count \in 0 .. PlaybackSlots
      BY ONLY <1>n, <1>i, <2>4, <2>5, <2>6
    <2> QED
      BY <1>n, <1>i, <1>s, <2>1, <2>4, <2>5, <2>6, <2>7 DEF PlayingRecord
  <1>5. CASE Playback!CallbackWritesSilence
    <2>1. /\ playing.pc = "silence" /\ UNCHANGED <<outRing, queued, taken, receiver, speaker>>
      BY <1>5 DEF Playback!CallbackWritesSilence
    <2>2. PICK took \in 0 .. playing.left :
            playing' = IF took = 0 THEN Playback!Resting ELSE [playing EXCEPT !.left = took]
      BY <1>5 DEF Playback!CallbackWritesSilence
    <2>3. playing.count = 0 /\ taken + (0 * Channels) <= queued
      BY <1>n, <1>i, <2>1
    <2>4. CASE took = 0
      BY <1>n, <1>s, <2>1, <2>2, <2>3, <2>4 DEF PlayingRecord, Playback!Resting
    <2>5. CASE took # 0
      <3>1. playing' = [pc |-> "silence", count |-> 0, left |-> took, at |-> playing.at]
        BY <1>t, <2>1, <2>2, <2>3, <2>5 DEF PlayingRecord
      <3> QED
        BY <1>n, <1>s, <2>1, <2>3, <3>1 DEF PlayingRecord
    <2> QED
      BY <2>4, <2>5
  <1>6. CASE Playback!CallbackCopies
    <2>1. /\ playing.pc = "write" /\ playing.left > 0
          /\ playing' = [pc |-> "write", count |-> playing.count, left |-> playing.left - 1,
                         at |-> playing.at + Channels]
          /\ playing.at + Channels + (playing.left - 1) * Channels
               = playing.at + (playing.left * Channels)
          /\ speaker' \in [0 .. Channels - 1 -> Playback!Sample]
          /\ \A c \in 0 .. Channels - 1 :
               speaker'[c] = [n |-> OutSample(playing.at).n, ch |-> c]
          /\ UNCHANGED <<outRing, queued, taken, receiver>>
      BY <1>6, CopiesFrame
    <2>2. Multiple(playing.at + Channels) /\ taken <= playing.at + Channels
      <3>1. Multiple(Channels)
        BY <1>n, MultipleOf
      <3>2. Multiple(playing.at) /\ taken <= playing.at
        BY <1>i, <2>1
      <3>3. playing.at \in Int /\ Channels \in Int
        BY <1>n
      <3>4. Multiple(playing.at + Channels)
        BY ONLY <3>1, <3>2, <3>3, MultipleSum
      <3> QED
        BY <1>n, <3>2, <3>4
    <2>3. playing' \in PlayingRecord
      BY <1>t, <1>n, <2>1, SMTT(30) DEF PlayingRecord
    <2>4. Playback!TypeOK'
      <3>1. /\ outRing' \in [0 .. PlaybackSlots - 1 -> Playback!Sample]
            /\ receiver' \in ReceiverRecord /\ queued' \in Nat /\ taken' \in 0 .. queued'
        BY <1>t, <1>n, <2>1
      <3>2. speaker' \in [0 .. Channels - 1 -> Playback!Sample]
        BY ONLY <2>1
      <3> QED
        BY ONLY <1>d, <1>h, <2>3, <3>1, <3>2, Zenon DEF Playback!TypeOK, PlayingRecord, ReceiverRecord
    <2>5. ChannelsAligned'
      <3>1. speaker'[0].n = OutSample(playing.at).n
        BY <1>n, <2>1
      <3> QED
        BY <2>1, <3>1 DEF ChannelsAligned, Playback!ChannelsAligned
    <2>6. WholeFrames'
      BY <1>w, <2>1 DEF WholeFrames, Filled, OutSample, First
    <2> QED
      BY <1>i, <1>l, <2>1, <2>2, <2>4, <2>5, <2>6 DEF PlaybackInv, WholeFrames, Multiple
  <1>9. CASE Playback!CallbackMiswrites
    <2>1. /\ playing.pc = "write" /\ playing.left > 0
          /\ playing' = [playing EXCEPT !.left = @ - 1, !.at = @ + Channels]
          /\ UNCHANGED <<outRing, queued, taken, receiver, speaker>>
      BY <1>9 DEF Playback!CallbackMiswrites
    <2>2. playing' = [pc |-> "write", count |-> playing.count, left |-> playing.left - 1,
                      at |-> playing.at + Channels]
      BY <1>t, <2>1 DEF PlayingRecord
    <2>3. playing.at + Channels + (playing.left - 1) * Channels
            = playing.at + (playing.left * Channels)
      BY <1>n
    <2>4. Multiple(playing.at + Channels) /\ taken <= playing.at + Channels
      <3>1. Multiple(Channels)
        BY <1>n, MultipleOf
      <3>2. Multiple(playing.at) /\ taken <= playing.at
        BY <1>i, <2>1
      <3>3. playing.at \in Int /\ Channels \in Int
        BY <1>n
      <3>4. Multiple(playing.at + Channels)
        BY ONLY <3>1, <3>2, <3>3, MultipleSum
      <3> QED
        BY <1>n, <3>2, <3>4
    <2>5. playing' \in PlayingRecord
      BY <1>t, <1>n, <2>1, <2>2, SMTT(30) DEF PlayingRecord
    <2>6. playing'.at + (playing'.left * Channels) <= taken + (playing.count * Channels)
      BY <1>l, <2>1, <2>2, <2>3
    <2>7. /\ playing'.pc = "write" /\ playing'.count = playing.count
          /\ taken <= playing'.at /\ Multiple(playing'.at)
      BY <2>2, <2>4
    <2> QED
      BY <1>l, <1>s, <2>1, <2>5, <2>6, <2>7
  <1>7. CASE Playback!CallbackEnds
    <2>1. /\ playing.pc = "write" /\ taken' = taken + playing.count * Channels
          /\ playing' = [pc |-> "rest", count |-> 0, left |-> 0, at |-> 0]
          /\ UNCHANGED <<outRing, queued, receiver, speaker>>
      BY <1>7 DEF Playback!CallbackEnds, Playback!Resting
    <2>2. playing.count * Channels \in Nat /\ Multiple(playing.count * Channels)
      <3>1. playing.count * Channels \in Nat
        BY <1>n, Product
      <3>2. playing.count * Channels = Channels * playing.count /\ playing.count \in Int
        BY <1>n
      <3> QED
        BY <3>1, <3>2, MultipleOf
    <2>3. /\ taken' \in Nat /\ taken <= taken' /\ taken' <= queued /\ Multiple(taken')
          /\ taken' + (0 * Channels) <= queued
      <3> DEFINE size == playing.count * Channels
      <3>1. size \in Nat /\ Multiple(size) /\ taken' = taken + size /\ taken + size <= queued
        BY <1>l, <2>1, <2>2
      <3> HIDE DEF size
      <3>2. Multiple(taken + size)
        BY ONLY <1>n, <1>i, <3>1, MultipleSum
      <3> QED
        BY ONLY <1>n, <3>1, <3>2
    <2>4. queued + receiver.count <= taken' + PlaybackSlots
      <3> DEFINE count == receiver.count
      <3>1. /\ queued \in Nat /\ taken \in Nat /\ taken' \in Nat /\ count \in Nat
            /\ PlaybackSlots \in Nat /\ taken <= taken' /\ queued + count <= taken + PlaybackSlots
        BY <1>n, <1>i, <2>3
      <3> DEFINE next == taken'
      <3>2. next \in Nat /\ taken <= next
        BY <3>1
      <3> HIDE DEF count, next
      <3>3. queued + count <= next + PlaybackSlots
        BY ONLY <3>1, <3>2
      <3> QED
        BY <3>3 DEF count, next
    <2>5. Playback!TypeOK'
      <3>1. /\ outRing' \in [0 .. PlaybackSlots - 1 -> Playback!Sample]
            /\ receiver' \in ReceiverRecord /\ queued' \in Nat
            /\ speaker' \in [0 .. Channels - 1 -> Playback!Sample]
        BY <1>t, <1>n, <2>1
      <3>2. playing' \in PlayingRecord
        BY <1>n, <2>1 DEF PlayingRecord
      <3>3. taken' \in 0 .. queued'
        <4>1. queued' = queued /\ taken' \in Nat /\ taken' <= queued
          BY <2>1, <2>3
        <4> QED
          BY ONLY <1>n, <4>1
      <3> QED
        BY ONLY <1>d, <1>h, <3>1, <3>2, <3>3, Zenon
        DEF Playback!TypeOK, PlayingRecord, ReceiverRecord
    <2>6. Filled' \subseteq Filled
      BY <1>n, <2>1, <2>3 DEF Filled
    <2>7. WholeFrames'
      BY <1>w, <2>1, <2>6 DEF WholeFrames, OutSample, First
    <2>8. ChannelsAligned'
      BY <1>c, <2>1 DEF ChannelsAligned, Playback!ChannelsAligned
    <2> QED
      BY <1>i, <1>l, <2>1, <2>3, <2>4, <2>5, <2>7, <2>8 DEF PlaybackInv, WholeFrames, Multiple
  <1>8. CASE UNCHANGED playbackVars
    BY <1>t, <1>n, <1>i, <1>l, <1>s, <1>8 DEF playbackVars
  <1> QED
    BY <1>1, <1>2, <1>3, <1>4, <1>5, <1>6, <1>7, <1>8, <1>9
    DEF Next, vars, Playback!Next, Playback!Receiver, Playback!Callback, PacketLost

\* Shares less than a ring apart use different slots.
LEMMA PlaybackApart == PlaybackInv => PlaybackNeverTorn
  <1> DEFINE size == playing.count * Channels
  <1> SUFFICES ASSUME PlaybackInv,
                      NEW p \in queued .. queued + receiver.count - 1,
                      NEW q \in taken .. taken + size - 1
               PROVE  Playback!Slot(p) # Playback!Slot(q)
    BY DEF PlaybackNeverTorn, Playback!NeverTorn
  <1>1. /\ queued \in Nat /\ taken \in Nat /\ receiver.count \in Nat /\ size \in Nat
        /\ PlaybackSlots \in Nat \ {0}
    BY PlaybackMeans, Product
  <1>2. queued + receiver.count <= taken + PlaybackSlots /\ taken + size <= queued
    BY DEF PlaybackInv
  <1> HIDE DEF size
  <1>3. p \in Int /\ q \in Int /\ q < p /\ p - q < PlaybackSlots
    BY ONLY <1>1, <1>2, p \in queued .. queued + receiver.count - 1, q \in taken .. taken + size - 1
  <1> QED
    BY <1>1, <1>3, Apart DEF Playback!Slot

-----------------------------------------------------------------------------
(* The theorems                                                            *)

\* The three parts together.
PathInv == CaptureInv /\ ForwardInv /\ PlaybackInv

(***************************************************************************)
(* PathInv is an invariant, whatever the sizes of the rings and buffers.   *)
(***************************************************************************)
THEOREM PathInvariant == Spec => []PathInv
  <1>1. Init => PathInv
    BY CaptureStarts, ForwardStarts, PlaybackStarts DEF PathInv
  <1>2. PathInv /\ [Next]_vars => PathInv'
    BY CaptureStep, ForwardStep, PlaybackStep DEF PathInv
  <1> QED
    BY <1>1, <1>2, PTL DEF Spec

\* The variables of all three parts keep their types.
THEOREM PathTypeCorrect == Spec => []TypeOK
  <1>1. PathInv => TypeOK
    BY DEF PathInv, CaptureInv, ForwardInv, PlaybackInv, TypeOK
  <1> QED
    BY <1>1, PathInvariant, PTL

(***************************************************************************)
(* read_callback() never fills a slot of ring_buffer that the transmitter  *)
(* is still reading, though each uses the other's offset of some time ago. *)
(***************************************************************************)
THEOREM CaptureIsNeverTorn == Spec => []CaptureNeverTorn
  <1>1. PathInv => CaptureNeverTorn
    BY CaptureApart DEF PathInv
  <1> QED
    BY <1>1, PathInvariant, PTL

\* Nor does read_samples() fill a slot that write_callback() is copying.
THEOREM PlaybackIsNeverTorn == Spec => []PlaybackNeverTorn
  <1>1. PathInv => PlaybackNeverTorn
    BY PlaybackApart DEF PathInv
  <1> QED
    BY <1>1, PathInvariant, PTL

(***************************************************************************)
(* Left and right are never swapped nor mixed, for any number of channels, *)
(* ring and buffer of whole frames.                                        *)
(***************************************************************************)
THEOREM ChannelsStayAligned == Spec => []ChannelsAligned
  <1>1. PathInv => ChannelsAligned
    BY DEF PathInv, PlaybackInv
  <1> QED
    BY <1>1, PathInvariant, PTL

=============================================================================
