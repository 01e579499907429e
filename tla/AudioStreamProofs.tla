------------------------- MODULE AudioStreamProofs -------------------------
(***************************************************************************)
(* AudioPath implements AudioStream, in two halves that meet in "given".   *)
(*                                                                         *)
(* RingInv follows a frame of the device through ring_buffer: at every     *)
(* place between the sender's past and the callback's next copy that is    *)
(* not amiss there is a recorded frame, the later place having the later   *)
(* frame.  It is kept because slots are not overwritten before they are    *)
(* read (PathInv).                                                         *)
(*                                                                         *)
(* OrderInv follows a frame of the network, which is at any time in one of *)
(* six places, from the bytes still to be given to what the listener has   *)
(* heard: what is nearer to the listener comes first in the sender's       *)
(* order.  A step takes frames from one place to the next or loses them.   *)
(***************************************************************************)
EXTENDS AudioPathProofs

-----------------------------------------------------------------------------
(* The capture ring                                                        *)

\* Where read_callback() copies next.
InEnd == IF capturing.pc = "read" THEN capturing.at ELSE written

\* What is, or was when the sender was given it, at position p of ring_buffer.
Unit(p) == IF p < Len(given) THEN given[p + 1] ELSE inRing[Capture!Slot(p)]

\* The positions filled so far that have a frame of their own.
Owned == (0 .. InEnd - 1) \ amiss

\* They hold recorded frames, in their order and each once.
RingInv ==
  /\ \A p \in Owned : Unit(p) \in 1 .. offered
  /\ \A p, q \in Owned : p < q => Unit(p) < Unit(q)

\* What the other parts leave alone.
ring == <<offered, inRing, written, sent, capturing, sender, amiss, given>>

\* What PathInv says of the ring.
LEMMA RingMeans ==
  ASSUME PathInv
  PROVE  /\ offered \in Nat /\ recorded \in Nat /\ offered <= recorded
         /\ written \in Nat /\ sent \in Nat /\ sender.fill \in Nat
         /\ capturing \in CallbackRecord /\ capturing.pc \in {"rest", "read"}
         /\ capturing.at \in Nat /\ capturing.want \in Nat /\ capturing.left \in Nat
         /\ CaptureSlots \in Nat \ {0} /\ InEnd \in Nat
         /\ inRing \in [0 .. CaptureSlots - 1 -> 0 .. MaxFrames]
         /\ Len(given) \in Nat /\ Len(given) = sent + sender.fill /\ Len(given) <= written
         /\ sent <= Len(given) /\ written <= InEnd
         /\ capturing.pc = "read" =>
              /\ InEnd = capturing.at
              /\ capturing.at + capturing.left <= written + capturing.want
         /\ written + capturing.want <= sent + CaptureSlots
  <1> USE DEF PathInv
  <1>1. /\ recorded \in 0 .. MaxFrames /\ offered \in 0 .. recorded
        /\ recorded \in Nat /\ offered \in Nat /\ written \in Nat /\ sent \in Nat
        /\ capturing \in CallbackRecord /\ sender.fill \in Nat
        /\ capturing.at \in Nat /\ capturing.want \in Nat /\ capturing.left \in Nat
        /\ CaptureSlots \in Nat \ {0} /\ Len(given) \in Nat
        /\ inRing \in [0 .. CaptureSlots - 1 -> 0 .. MaxFrames]
    BY CaptureMeans
  <1>2. capturing.pc \in {"rest", "read"} /\ offered <= recorded
    BY <1>1 DEF CallbackRecord
  <1>3. /\ Len(given) = sent + sender.fill /\ sent + sender.fill <= written
        /\ written + capturing.want <= sent + CaptureSlots
        /\ capturing.pc = "read" =>
             /\ written <= capturing.at
             /\ capturing.at + capturing.left <= written + capturing.want
    BY DEF CaptureInv
  <1>4. /\ InEnd \in Nat /\ written <= InEnd
        /\ capturing.pc = "read" => InEnd = capturing.at
    BY <1>1, <1>2, <1>3 DEF InEnd
  <1>5. sent <= Len(given) /\ Len(given) <= written
    BY ONLY <1>1, <1>3
  <1> QED
    BY <1>1, <1>2, <1>3, <1>4, <1>5

\* The slots that read_callback() may still fill are none that somebody has to read.
LEMMA NotReadYet ==
  ASSUME PathInv, capturing.pc = "read", NEW r \in Nat, r < capturing.left,
         NEW p \in Int, Len(given) <= p, p < capturing.at
  PROVE  Capture!Slot(p) # Capture!Slot(capturing.at + r)
  <1>1. /\ sent \in Nat /\ capturing.at \in Nat /\ capturing.left \in Nat /\ written \in Nat
        /\ capturing.want \in Nat /\ CaptureSlots \in Nat \ {0} /\ Len(given) \in Nat
        /\ sent <= Len(given) /\ written + capturing.want <= sent + CaptureSlots
        /\ capturing.at + capturing.left <= written + capturing.want
    BY RingMeans
  <1> DEFINE n == Len(given)
             at == capturing.at
             left == capturing.left
             want == capturing.want
  <1>2. /\ n \in Nat /\ at \in Nat /\ left \in Nat /\ want \in Nat /\ sent \in Nat /\ written \in Nat
        /\ CaptureSlots \in Nat \ {0} /\ sent <= n /\ n <= p /\ p < at /\ r < left
        /\ written + want <= sent + CaptureSlots /\ at + left <= written + want
    BY <1>1
  <1> HIDE DEF n, at, left, want
  <1>3. at + r \in Int /\ p < at + r /\ (at + r) - p < CaptureSlots
    BY ONLY <1>2, r \in Nat, p \in Int
  <1> QED
    BY <1>2, <1>3, Apart DEF Capture!Slot, at

\* Positions that keep what they have keep their order.
LEMMA RingKept ==
  ASSUME RingInv, offered \in Nat, offered' \in Nat, offered <= offered',
         Owned' \subseteq Owned, \A p \in Owned' : Unit(p)' = Unit(p)
  PROVE  RingInv'
  <1>1. ASSUME NEW p \in Owned' PROVE Unit(p)' \in 1 .. offered'
    <2>1. Unit(p) \in 1 .. offered /\ Unit(p)' = Unit(p)
      BY <1>1 DEF RingInv
    <2> QED
      BY <2>1
  <1>2. ASSUME NEW p \in Owned', NEW q \in Owned', p < q PROVE Unit(p)' < Unit(q)'
    BY <1>2 DEF RingInv
  <1> QED
    BY <1>1, <1>2 DEF RingInv

\* A copy into the next slot leaves the units before it as they are.
LEMMA CopyLeaves ==
  ASSUME PathInv, capturing.pc = "read", capturing.left > 0, NEW v,
         inRing' = [inRing EXCEPT ![Capture!Slot(capturing.at)] = v], given' = given,
         capturing' = [capturing EXCEPT !.left = @ - 1, !.at = @ + 1]
  PROVE  /\ InEnd = capturing.at /\ InEnd' = capturing.at + 1
         /\ \A p \in 0 .. capturing.at - 1 : Unit(p)' = Unit(p)
         /\ \A p \in Nat : p = capturing.at => Unit(p)' = v
  <1>1. /\ capturing \in CallbackRecord /\ capturing.at \in Nat /\ capturing.left \in Nat
        /\ inRing \in [0 .. CaptureSlots - 1 -> 0 .. MaxFrames] /\ Len(given) \in Nat
        /\ InEnd = capturing.at /\ written \in Nat /\ Len(given) <= written /\ written <= InEnd
    BY RingMeans
  <1>2. capturing'.pc = "read" /\ capturing'.at = capturing.at + 1
    BY <1>1 DEF CallbackRecord
  <1>3. ASSUME NEW p \in 0 .. capturing.at - 1 PROVE Unit(p)' = Unit(p)
    <2>1. CASE p < Len(given)
      BY <2>1 DEF Unit
    <2>2. CASE ~(p < Len(given))
      <3>1. p \in Int /\ Len(given) <= p /\ p < capturing.at /\ 0 < capturing.left
        BY <1>1, <2>2
      <3>2. Capture!Slot(p) # Capture!Slot(capturing.at + 0)
        BY <3>1, NotReadYet
      <3>3. capturing.at + 0 = capturing.at
        BY <1>1
      <3>4. Capture!Slot(p) \in 0 .. CaptureSlots - 1
        BY <3>1, SlotOf
      <3>5. inRing'[Capture!Slot(p)] = inRing[Capture!Slot(p)]
        BY <1>1, <3>2, <3>3, <3>4
      <3> QED
        BY <2>2, <3>5 DEF Unit, Capture!Slot
    <2> QED
      BY <2>1, <2>2
  <1>4. ASSUME NEW p \in Nat, p = capturing.at PROVE Unit(p)' = v
    <2>1. Capture!Slot(capturing.at) \in 0 .. CaptureSlots - 1
      BY <1>1, SlotOf
    <2>2. inRing'[Capture!Slot(capturing.at)] = v
      BY <1>1, <2>1
    <2>3. ~(capturing.at < Len(given))
      BY <1>1
    <2> QED
      BY <1>4, <2>2, <2>3 DEF Unit, Capture!Slot
  <1> QED
    BY <1>1, <1>2, <1>3, <1>4 DEF InEnd

\* read_callback() adds the newest frame at the end.
LEMMA RingCopies ==
  ASSUME PathInv, RingInv, Capture!CallbackCopies
  PROVE  RingInv'
  <1>1. /\ inRing' = [inRing EXCEPT ![Capture!Slot(capturing.at)] = offered + 1]
        /\ capturing.pc = "read" /\ capturing.left > 0 /\ offered' = offered + 1
        /\ capturing' = [capturing EXCEPT !.left = @ - 1, !.at = @ + 1]
        /\ given' = given /\ amiss' = amiss
    BY DEF Capture!CallbackCopies
  <1>2. /\ InEnd = capturing.at /\ InEnd' = capturing.at + 1
        /\ \A p \in 0 .. capturing.at - 1 : Unit(p)' = Unit(p)
        /\ \A p \in Nat : p = capturing.at => Unit(p)' = offered + 1
    BY <1>1, CopyLeaves
  <1>3. offered \in Nat /\ capturing.at \in Nat
    BY RingMeans
  <1>4. ASSUME NEW p \in Owned'
        PROVE  \/ p = capturing.at /\ Unit(p)' = offered + 1
               \/ /\ p \in Owned /\ p < capturing.at /\ Unit(p)' = Unit(p)
                  /\ Unit(p) \in 1 .. offered
    <2>1. p \in 0 .. capturing.at /\ p \notin amiss
      <3>1. p \in (0 .. (capturing.at + 1) - 1) \ amiss
        BY <1>1, <1>2 DEF Owned
      <3> QED
        BY <1>3, <3>1
    <2>2. CASE p = capturing.at
      BY <1>2, <1>3, <2>2
    <2>3. CASE p # capturing.at
      <3>1. p \in 0 .. capturing.at - 1 /\ p < capturing.at
        BY <1>3, <2>1, <2>3
      <3>2. p \in Owned
        BY <1>2, <2>1, <3>1 DEF Owned
      <3> QED
        BY <1>2, <3>1, <3>2 DEF RingInv
    <2> QED
      BY <2>2, <2>3
  <1>5. ASSUME NEW p \in Owned' PROVE Unit(p)' \in 1 .. offered'
    BY <1>1, <1>3, <1>4
  <1>6. ASSUME NEW p \in Owned', NEW q \in Owned', p < q PROVE Unit(p)' < Unit(q)'
    <2>1. p \in Owned /\ p < capturing.at /\ Unit(p)' = Unit(p) /\ Unit(p) \in 1 .. offered
      <3> SUFFICES ASSUME p = capturing.at PROVE FALSE
        BY <1>4
      <3>1. q = capturing.at \/ q < capturing.at
        BY <1>4
      <3>2. q \in Int
        BY DEF Owned
      <3> QED
        BY ONLY <1>3, <1>6, <3>1, <3>2, p = capturing.at
    <2>2. CASE q = capturing.at
      <3>1. Unit(q)' = offered + 1
        BY <1>2, <1>3, <2>2
      <3> QED
        BY <1>3, <2>1, <3>1
    <2>3. CASE q # capturing.at
      <3>1. q \in Owned /\ Unit(q)' = Unit(q)
        BY <1>4, <2>3
      <3> QED
        BY <1>6, <2>1, <3>1 DEF RingInv
    <2> QED
      BY <2>2, <2>3
  <1> QED
    BY <1>5, <1>6 DEF RingInv

\* After an error what is copied is no unit of its own.
LEMMA RingMisreads ==
  ASSUME PathInv, RingInv, Capture!CallbackMisreads, heard' = heard
  PROVE  RingInv' /\ Stream!PassOver
  <1>1. /\ capturing.pc = "read" /\ capturing.left > 0
        /\ capturing' = [capturing EXCEPT !.left = @ - 1, !.at = @ + 1]
        /\ amiss' = amiss \cup {capturing.at}
        /\ UNCHANGED <<recorded, offered, given>>
    BY DEF Capture!CallbackMisreads
  <1>2. PICK v \in 0 .. recorded : inRing' = [inRing EXCEPT ![Capture!Slot(capturing.at)] = v]
    BY DEF Capture!CallbackMisreads
  <1>3. /\ InEnd = capturing.at /\ InEnd' = capturing.at + 1
        /\ \A p \in 0 .. capturing.at - 1 : Unit(p)' = Unit(p)
    BY <1>1, <1>2, CopyLeaves
  <1>4. /\ offered \in Nat /\ capturing.at \in Nat /\ Len(given) \in Nat /\ written \in Nat
        /\ Len(given) <= written /\ written <= InEnd
    BY RingMeans
  <1>5. ASSUME NEW p \in Owned' PROVE p \in Owned /\ p \in 0 .. capturing.at - 1
    <2>1. p \in (0 .. (capturing.at + 1) - 1) \ (amiss \cup {capturing.at})
      BY <1>1, <1>3 DEF Owned
    <2>2. p \in 0 .. capturing.at - 1 /\ p \notin amiss
      BY <1>4, <2>1
    <2> QED
      BY <1>3, <2>2 DEF Owned
  <1>6. RingInv'
    <2>1. offered' = offered /\ \A p \in Owned' : Unit(p)' = Unit(p)
      BY <1>1, <1>3, <1>5
    <2> QED
      BY <1>4, <1>5, <2>1, RingKept
  <1> QED
    BY <1>1, <1>3, <1>4, <1>6 DEF Stream!PassOver

\* A hole clears only slots that nobody has to read.
LEMMA RingHole ==
  ASSUME PathInv, RingInv, Capture!CallbackMeetsHole
  PROVE  RingInv'
  <1>1. /\ capturing.pc = "read" /\ UNCHANGED <<recorded, written, amiss, given>>
        /\ capturing \in CallbackRecord
    BY RingMeans DEF Capture!CallbackMeetsHole
  <1>2. PICK count \in 1 .. capturing.left :
          /\ inRing' = [s \in DOMAIN inRing |->
               IF (s - capturing.at) % CaptureSlots < count THEN 0 ELSE inRing[s]]
          /\ offered' \in offered .. Capture!Lower(recorded, offered + count)
          /\ capturing' = [capturing EXCEPT !.left = @ - count]
    BY DEF Capture!CallbackMeetsHole
  <1>n. /\ capturing.at \in Nat /\ capturing.left \in Nat /\ CaptureSlots \in Nat \ {0}
        /\ Len(given) \in Nat /\ offered \in Nat /\ recorded \in Nat /\ InEnd = capturing.at
        /\ DOMAIN inRing = 0 .. CaptureSlots - 1
    BY <1>1, RingMeans
  <1>3. capturing'.pc = "read" /\ capturing'.at = capturing.at
    BY <1>1, <1>2 DEF CallbackRecord
  <1>4. InEnd' = InEnd /\ Owned' = Owned
    BY <1>1, <1>3 DEF Owned, InEnd
  <1>5. ASSUME NEW p \in Owned PROVE Unit(p)' = Unit(p)
    <2>1. p \in Int /\ p < capturing.at
      BY <1>n DEF Owned
    <2>2. CASE p < Len(given)
      BY <1>1, <2>2 DEF Unit
    <2>3. CASE ~(p < Len(given))
      <3> DEFINE s == Capture!Slot(p)
                 d == s - capturing.at
                 r == d % CaptureSlots
                 k == d \div CaptureSlots
      <3>1. s \in 0 .. CaptureSlots - 1
        BY <2>1, SlotOf
      <3> HIDE DEF s
      <3>2. d \in Int /\ d = s - capturing.at
        BY <1>n, <3>1
      <3> HIDE DEF d
      <3>3. r \in 0 .. CaptureSlots - 1 /\ k \in Int /\ d = CaptureSlots * k + r
        BY <1>n, <3>2, DivMod
      <3> HIDE DEF r, k
      <3>4. ~(r < count)
        <4> SUFFICES ASSUME r < count PROVE FALSE
          OBVIOUS
        <4>1. capturing.at + r = CaptureSlots * (-k) + s /\ capturing.at + r \in Int /\ -k \in Int
          <5> DEFINE at == capturing.at
                     m == CaptureSlots * k
          <5>1. at \in Nat /\ m \in Int /\ s - at = m + r /\ s \in Int /\ r \in Int
            BY <1>n, <3>1, <3>2, <3>3
          <5> HIDE DEF at, m
          <5>2. at + r = s - m /\ at + r \in Int
            BY ONLY <5>1
          <5> QED
            BY <1>n, <3>1, <3>3, <5>2 DEF at, m
        <4>2. Capture!Slot(capturing.at + r) = s
          BY <1>n, <3>1, <4>1, Remainder DEF Capture!Slot
        <4>3. r \in Nat /\ r < capturing.left /\ Len(given) <= p
          BY <1>n, <2>1, <2>3, <3>3
        <4> QED
          BY <1>1, <2>1, <4>2, <4>3, NotReadYet DEF s
      <3>5. inRing'[s] = inRing[s]
        BY <1>2, <1>n, <3>1, <3>4 DEF r, d
      <3> QED
        BY <1>1, <2>3, <3>5 DEF Unit, s, Capture!Slot
    <2> QED
      BY <2>2, <2>3
  <1>6. offered' \in Nat /\ offered <= offered'
    <2>1. Capture!Lower(recorded, offered + count) \in Int
      BY <1>n DEF Capture!Lower
    <2> QED
      BY <1>2, <1>n, <2>1
  <1> QED
    BY <1>4, <1>5, <1>6, <1>n, RingKept

\* What is advanced over without a copy is amiss.
LEMMA RingEnds ==
  ASSUME PathInv, RingInv, Capture!CallbackEnds, heard' = heard
  PROVE  RingInv' /\ Stream!PassOver
  <1>1. /\ capturing.pc = "read" /\ capturing'.pc = "rest"
        /\ written' = written + capturing.want
        /\ amiss' = amiss \cup (capturing.at .. written + capturing.want - 1)
        /\ UNCHANGED <<recorded, offered, inRing, given>>
    BY DEF Capture!CallbackEnds, Capture!Resting
  <1>2. /\ offered \in Nat /\ capturing.at \in Nat /\ Len(given) \in Nat /\ written \in Nat
        /\ capturing.want \in Nat /\ InEnd = capturing.at
        /\ Len(given) <= written /\ written <= InEnd
    BY <1>1, RingMeans
  <1>3. InEnd' = written + capturing.want
    BY <1>1 DEF InEnd
  <1>4. ASSUME NEW p \in Owned' PROVE p \in Owned
    <2>1. p \in (0 .. (written + capturing.want) - 1) \ amiss'
      BY <1>3 DEF Owned
    <2>2. p \in 0 .. capturing.at - 1 /\ p \notin amiss
      BY <1>1, <1>2, <2>1
    <2> QED
      BY <1>2, <2>2 DEF Owned
  <1>5. RingInv'
    <2>1. offered' = offered /\ \A p \in Owned' : Unit(p)' = Unit(p)
      BY <1>1 DEF Unit, Capture!Slot
    <2> QED
      BY <1>2, <1>4, <2>1, RingKept
  <1>6. ASSUME NEW p \in amiss' \ amiss PROVE p >= Len(given)
    <2>1. p \in capturing.at .. written + capturing.want - 1
      BY <1>1
    <2> QED
      BY <1>2, <2>1
  <1> QED
    BY <1>1, <1>5, <1>6 DEF Stream!PassOver

\* The sender is given what is in the ring.
LEMMA RingWrites ==
  ASSUME PathInv, RingInv, Capture!SenderWrites
  PROVE  /\ RingInv' /\ Len(given') >= Len(given)
         /\ \A i \in DOMAIN given : given'[i] = given[i]
         /\ \A i \in Stream!Own(given') : given'[i] \in 1 .. recorded
         /\ \A i, j \in Stream!Own(given') : i < j => given'[i] < given'[j]
  <1>1. /\ UNCHANGED <<recorded, offered, inRing, written, capturing, amiss>>
    BY DEF Capture!SenderWrites
  <1>2. /\ given' \in Seq(0 .. MaxFrames) /\ Len(given') = written
        /\ Len(given) = sent /\ given \in Seq(0 .. MaxFrames)
        /\ \A i \in 1 .. sent : given'[i] = given[i]
        /\ \A i \in sent + 1 .. written : given'[i] = inRing[Capture!Slot(i - 1)]
    BY SenderGives, CaptureMeans DEF PathInv
  <1>3. /\ offered \in Nat /\ recorded \in Nat /\ offered <= recorded /\ sent \in Nat
        /\ written \in Nat /\ sent <= written /\ InEnd \in Nat /\ written <= InEnd
    BY <1>2, RingMeans
  <1>4. ASSUME NEW p \in Nat, p < written PROVE given'[p + 1] = Unit(p)
    <2>1. CASE p < sent
      <3>1. p + 1 \in 1 .. sent
        BY <1>3, <2>1
      <3> QED
        BY <1>2, <2>1, <3>1 DEF Unit
    <2>2. CASE ~(p < sent)
      <3>1. p + 1 \in sent + 1 .. written /\ (p + 1) - 1 = p
        BY <1>3, <1>4, <2>2
      <3>2. given'[p + 1] = inRing[Capture!Slot((p + 1) - 1)]
        BY ONLY <1>2, <3>1
      <3> QED
        BY <1>2, <2>2, <3>1, <3>2 DEF Unit
    <2> QED
      BY <2>1, <2>2
  <1>5. Owned' = Owned /\ \A p \in Owned : p \in Nat
    BY <1>1, <1>3 DEF Owned, InEnd
  <1>6. ASSUME NEW p \in Owned PROVE Unit(p)' = Unit(p)
    <2>1. CASE p < written
      BY <1>2, <1>4, <1>5, <2>1 DEF Unit
    <2>2. CASE ~(p < written)
      <3>1. ~(p < sent)
        BY <1>3, <1>5, <2>2
      <3> QED
        BY <1>1, <1>2, <2>2, <3>1 DEF Unit, Capture!Slot
    <2> QED
      BY <2>1, <2>2
  <1>7. RingInv'
    <2>1. offered' = offered
      BY <1>1
    <2> QED
      BY <1>3, <1>5, <1>6, <2>1, RingKept
  <1>8. ASSUME NEW i \in Stream!Own(given')
        PROVE  i \in Int /\ i - 1 \in Owned /\ given'[i] = Unit(i - 1)
    <2>1. i \in 1 .. written /\ i - 1 \notin amiss
      BY <1>2, LenProperties DEF Stream!Own
    <2>2. i - 1 \in Nat /\ i - 1 < written /\ (i - 1) + 1 = i /\ i - 1 \in 0 .. InEnd - 1
      BY <1>3, <2>1
    <2>3. given'[(i - 1) + 1] = Unit(i - 1)
      BY ONLY <1>4, <2>2
    <2> QED
      BY <2>1, <2>2, <2>3 DEF Owned
  <1>9. \A i \in Stream!Own(given') : given'[i] \in 1 .. recorded
    BY <1>3, <1>8 DEF RingInv
  <1>10. ASSUME NEW i \in Stream!Own(given'), NEW j \in Stream!Own(given'), i < j
         PROVE  given'[i] < given'[j]
    <2>1. i - 1 < j - 1
      BY <1>8, <1>10
    <2> QED
      BY <1>8, <2>1 DEF RingInv
  <1>11. Len(given') >= Len(given) /\ \A i \in DOMAIN given : given'[i] = given[i]
    BY <1>2, <1>3, LenProperties
  <1> QED
    BY <1>7, <1>9, <1>10, <1>11

\* The other steps of the capture side move the ends of the ring only.
LEMMA RingSame ==
  ASSUME PathInv, PathInv', RingInv,
         \/ Capture!Record \/ Capture!DeviceOverruns \/ Capture!CallbackStarts
         \/ Capture!SenderFails \/ Capture!SenderAdvances \/ UNCHANGED ring
  PROVE  RingInv'
  <1>1. InEnd' = InEnd /\ UNCHANGED <<inRing, given, amiss>>
    <2>1. CASE Capture!CallbackStarts
      BY <2>1, RingMeans DEF Capture!CallbackStarts, InEnd
    <2>2. CASE ~Capture!CallbackStarts
      BY <2>2 DEF Capture!Record, Capture!DeviceOverruns, Capture!SenderFails,
        Capture!SenderAdvances, ring, InEnd
    <2> QED
      BY <2>1, <2>2
  <1>2. offered' = offered \/ offered' \in offered + 1 .. recorded
    BY DEF Capture!Record, Capture!DeviceOverruns, Capture!CallbackStarts,
      Capture!SenderFails, Capture!SenderAdvances, ring
  <1>3. offered \in Nat /\ recorded \in Nat
    BY RingMeans
  <1>4. Owned' = Owned /\ \A p \in Owned : Unit(p)' = Unit(p)
    BY <1>1 DEF Owned, Unit, Capture!Slot
  <1>5. offered' \in Nat /\ offered <= offered'
    BY <1>2, <1>3
  <1> QED
    BY <1>3, <1>4, <1>5, RingKept

\* Every step of the capture side keeps RingInv and is one of AudioStream's.
LEMMA RingStep ==
  ASSUME PathInv, PathInv', RingInv, Capture!Next, heard' = heard
  PROVE  RingInv' /\ [Stream!Next]_(Stream!svars)
  <1> USE DEF Stream!Next, Stream!svars
  <1>1. CASE Capture!Record
    <2>1. recorded' \in Nat /\ recorded' > recorded /\ UNCHANGED <<given, amiss, heard>>
      BY <1>1, RingMeans, SizesAssumption DEF Capture!Record
    <2> QED
      BY <1>1, <2>1, RingSame DEF Stream!Record
  <1>2. CASE \/ Capture!DeviceOverruns \/ Capture!CallbackStarts
             \/ Capture!SenderFails \/ Capture!SenderAdvances
    <2>1. UNCHANGED <<recorded, given, amiss>>
      BY <1>2 DEF Capture!DeviceOverruns, Capture!CallbackStarts, Capture!SenderFails,
        Capture!SenderAdvances
    <2> QED
      BY <1>2, <2>1, RingSame
  <1>3. CASE Capture!CallbackCopies
    <2>1. UNCHANGED <<recorded, given, amiss>>
      BY <1>3 DEF Capture!CallbackCopies
    <2> QED
      BY <1>3, <2>1, RingCopies
  <1>4. CASE Capture!CallbackMisreads
    BY <1>4, RingMisreads
  <1>5. CASE Capture!CallbackMeetsHole
    <2>1. UNCHANGED <<recorded, given, amiss>>
      BY <1>5 DEF Capture!CallbackMeetsHole
    <2> QED
      BY <1>5, <2>1, RingHole
  <1>6. CASE Capture!CallbackEnds
    BY <1>6, RingEnds
  <1>7. CASE Capture!SenderWrites
    <2>1. UNCHANGED <<recorded, amiss>>
      BY <1>7 DEF Capture!SenderWrites
    <2>2. /\ RingInv' /\ Len(given') >= Len(given)
          /\ \A i \in DOMAIN given : given'[i] = given[i]
          /\ \A i \in Stream!Own(given') : given'[i] \in 1 .. recorded
          /\ \A i, j \in Stream!Own(given') : i < j => given'[i] < given'[j]
      BY <1>7, RingWrites
    <2> QED
      BY <2>1, <2>2 DEF Stream!Give
  <1> QED
    BY <1>1, <1>2, <1>3, <1>4, <1>5, <1>6, <1>7 DEF Capture!Next

-----------------------------------------------------------------------------
(* Moving frames                                                           *)

\* The frames in a part of the way; 0 is no frame, but silence.
Frames(f) == {f[i] : i \in DOMAIN f} \ {0}

\* The frames in f are in the sender's order.
Rising(f) == \A i, j \in DOMAIN f : i < j /\ f[i] # 0 /\ f[j] # 0 => f[i] < f[j]

\* What is in S comes before what is in T.
Below(S, T) == \A x \in S, y \in T : x < y

\* What write_callback() has still to copy from out_ring_buffer, by its first channel.
Outgoing ==
  [p \in {p \in (IF playing.pc = "write" THEN playing.at ELSE taken)
                  .. queued + receiver.count - 1 : Multiple(p)} |-> OutSample(p).n]

\* The places, from the listener to the bytes that the sender has not been given yet.
Place == <<Frames(heard), Frames(Outgoing), Frames(down), Frames(forwarder.buffer), Frames(up),
           {n \in Nat : n > Capture!FramesIn(Len(given))}>>

\* The nearer to the listener the earlier.
Ascending(P) == \A i, j \in 1 .. 6 : i < j => Below(P[i], P[j])

\* In order within every place and from place to place.
OrderInv ==
  /\ Rising(Outgoing) /\ Rising(down) /\ Rising(forwarder.buffer) /\ Rising(up)
  /\ Ascending(Place)

(***************************************************************************)
(* Frames that go at most one place further keep the order, if those that  *)
(* arrive in a place are below those that stay behind.                     *)
(***************************************************************************)
LEMMA OnePlaceOn ==
  ASSUME NEW P, NEW Q, Ascending(P), Q[6] \subseteq P[6],
         \A i \in 1 .. 5 : \/ Q[i] \subseteq P[i]
                           \/ Q[i] \subseteq P[i] \cup P[i + 1] /\ Below(Q[i], Q[i + 1])
  PROVE  Ascending(Q)
  <1> SUFFICES ASSUME NEW i \in 1 .. 6, NEW j \in 1 .. 6, i < j, NEW x \in Q[i], NEW y \in Q[j]
               PROVE  x < y
    BY DEF Ascending, Below
  <1>1. i \in 1 .. 5 /\ i + 1 \in 1 .. 6
    OBVIOUS
  <1>2. PICK k \in 1 .. 6 : j <= k /\ y \in P[k]
    <2>1. CASE y \in P[j]
      BY <2>1
    <2>2. CASE y \notin P[j]
      <3>1. j \in 1 .. 5 /\ y \in P[j + 1]
        <4>1. j # 6
          BY <2>2
        <4> QED
          BY <2>2, <4>1
      <3>2. j + 1 \in 1 .. 6 /\ j <= j + 1
        BY <3>1
      <3> QED
        BY <3>1, <3>2
    <2> QED
      BY <2>1, <2>2
  <1>3. CASE x \in P[i]
    <2>1. i < k
      BY <1>2
    <2> QED
      BY <1>2, <1>3, <2>1 DEF Ascending, Below
  <1>4. CASE x \notin P[i]
    <2>1. x \in P[i + 1] /\ Below(Q[i], Q[i + 1])
      BY <1>1, <1>4
    <2>2. CASE j = i + 1
      BY <2>1, <2>2 DEF Below
    <2>3. CASE j # i + 1
      <3>1. i + 1 < k
        BY <1>2, <2>3
      <3> QED
        BY <1>1, <1>2, <2>1, <3>1 DEF Ascending, Below
    <2> QED
      BY <2>2, <2>3
  <1> QED
    BY <1>3, <1>4

\* A sequence of frames, its front and its rest.
LEMMA Parts ==
  ASSUME NEW s \in Seq(Nat), NEW n \in Nat, NEW m \in Nat, n <= m, m <= Len(s), Rising(s)
  PROVE  LET a == SubSeq(s, 1, n)
             b == SubSeq(s, m + 1, Len(s))
         IN  /\ Rising(a) /\ Rising(b) /\ Below(Frames(a), Frames(b))
             /\ Frames(a) \subseteq Frames(s) /\ Frames(b) \subseteq Frames(s)
  <1> DEFINE a == SubSeq(s, 1, n)
             b == SubSeq(s, m + 1, Len(s))
  <1>1. Len(s) \in Nat /\ DOMAIN s = 1 .. Len(s) /\ \A i \in 1 .. Len(s) : s[i] \in Nat
    BY LenProperties, ElementOfSeq
  <1>2. /\ \A i \in 1 .. n : s[i] \in Nat
        /\ \A i \in m + 1 .. Len(s) : s[i] \in Nat
    BY <1>1
  <1>3. a \in Seq(Nat) /\ Len(a) = n /\ \A i \in 1 .. n : a[i] = s[i]
    BY <1>1, <1>2, SubSeqProperties
  <1>4. /\ b \in Seq(Nat) /\ Len(b) = Len(s) - m
        /\ \A i \in 1 .. Len(s) - m : b[i] = s[m + i]
    <2>1. m + 1 \in Int /\ Len(s) \in Int
      BY <1>1
    <2>2. b \in Seq(Nat) /\ Len(b) = IF m + 1 <= Len(s) THEN Len(s) - (m + 1) + 1 ELSE 0
      BY <1>2, <2>1, SubSeqProperties
    <2>3. \A i \in 1 .. Len(s) - (m + 1) + 1 : b[i] = s[(m + 1) + i - 1]
      BY <1>2, <2>1, SubSeqProperties
    <2>4. Len(b) = Len(s) - m
      <3> DEFINE k == Len(s)
                 l == Len(b)
      <3>1. k \in Nat /\ m <= k /\ l = IF m + 1 <= k THEN k - (m + 1) + 1 ELSE 0
        BY <1>1, <2>2
      <3> HIDE DEF k, l
      <3>2. l = k - m
        BY ONLY <3>1, m \in Nat
      <3> QED
        BY <3>2 DEF l, k
    <2>5. ASSUME NEW i \in 1 .. Len(s) - m PROVE b[i] = s[m + i]
      <3>1. i \in 1 .. Len(s) - (m + 1) + 1 /\ (m + 1) + i - 1 = m + i
        BY <1>1
      <3> QED
        BY <2>3, <3>1
    <2> QED
      BY <2>2, <2>4, <2>5
  <1>5. DOMAIN a = 1 .. n /\ DOMAIN b = 1 .. Len(s) - m
    BY <1>3, <1>4, LenProperties
  <1> HIDE DEF a, b
  <1>6. \A i \in 1 .. n : i \in 1 .. Len(s)
    BY <1>1
  <1>7. \A i \in 1 .. Len(s) - m : m + i \in 1 .. Len(s)
    BY <1>1
  <1>8. Rising(a)
    BY <1>1, <1>3, <1>5, <1>6 DEF Rising
  <1>9. Rising(b)
    <2> SUFFICES ASSUME NEW i \in 1 .. Len(s) - m, NEW j \in 1 .. Len(s) - m, i < j,
                        b[i] # 0, b[j] # 0
                 PROVE  b[i] < b[j]
      BY <1>5 DEF Rising
    <2>1. m + i < m + j /\ m + i \in DOMAIN s /\ m + j \in DOMAIN s
      BY <1>1, <1>7
    <2> QED
      BY <1>4, <2>1 DEF Rising
  <1>10. Frames(a) \subseteq Frames(s) /\ Frames(b) \subseteq Frames(s)
    BY <1>1, <1>3, <1>4, <1>5, <1>6, <1>7 DEF Frames
  <1>11. Below(Frames(a), Frames(b))
    <2> SUFFICES ASSUME NEW i \in 1 .. n, NEW j \in 1 .. Len(s) - m, a[i] # 0, b[j] # 0
                 PROVE  a[i] < b[j]
      BY <1>5 DEF Below, Frames
    <2>1. i < m + j
      BY <1>1
    <2> QED
      BY <1>1, <1>3, <1>4, <1>6, <1>7, <2>1 DEF Rising
  <1> QED
    BY <1>8, <1>9, <1>10, <1>11 DEF a, b

\* Frames appended behind earlier ones.
LEMMA Joined ==
  ASSUME NEW s \in Seq(Nat), NEW t \in Seq(Nat), Rising(s), Rising(t),
         Below(Frames(s), Frames(t))
  PROVE  Rising(s \o t) /\ Frames(s \o t) \subseteq Frames(s) \cup Frames(t)
  <1> DEFINE u == s \o t
             m == Len(s)
  <1>1. /\ m \in Nat /\ DOMAIN s = 1 .. m /\ Len(t) \in Nat /\ DOMAIN t = 1 .. Len(t)
        /\ u \in Seq(Nat) /\ Len(u) = m + Len(t) /\ DOMAIN u = 1 .. m + Len(t)
        /\ \A i \in 1 .. m + Len(t) : u[i] = IF i <= m THEN s[i] ELSE t[i - m]
    BY LenProperties, ConcatProperties
  <1> HIDE DEF u, m
  <1>2. ASSUME NEW i \in DOMAIN u
        PROVE  \/ i <= m /\ i \in DOMAIN s /\ u[i] = s[i]
               \/ m < i /\ i - m \in DOMAIN t /\ u[i] = t[i - m]
    <2> DEFINE k == Len(t)
    <2>1. /\ m \in Nat /\ k \in Nat /\ i \in 1 .. m + k /\ DOMAIN s = 1 .. m
          /\ DOMAIN t = 1 .. k
      BY <1>1
    <2> HIDE DEF k
    <2>2. u[i] = IF i <= m THEN s[i] ELSE t[i - m]
      BY <1>1
    <2>3. CASE i <= m
      BY ONLY <2>1, <2>2, <2>3
    <2>4. CASE ~(i <= m)
      <3>1. m < i /\ i - m \in 1 .. k
        BY ONLY <2>1, <2>4
      <3> QED
        BY ONLY <2>1, <2>2, <2>4, <3>1
    <2> QED
      BY <2>3, <2>4
  <1>3. Frames(u) \subseteq Frames(s) \cup Frames(t)
    BY <1>2 DEF Frames
  <1>4. Rising(u)
    <2> SUFFICES ASSUME NEW i \in DOMAIN u, NEW j \in DOMAIN u, i < j, u[i] # 0, u[j] # 0
                 PROVE  u[i] < u[j]
      BY DEF Rising
    <2>1. i \in Int /\ j \in Int
      BY <1>1
    <2>2. CASE j <= m
      <3>1. i \in DOMAIN s /\ j \in DOMAIN s /\ u[i] = s[i] /\ u[j] = s[j]
        BY <1>1, <1>2, <2>1, <2>2
      <3> QED
        BY <3>1 DEF Rising
    <2>3. CASE m < i
      <3>1. i - m \in DOMAIN t /\ j - m \in DOMAIN t /\ u[i] = t[i - m] /\ u[j] = t[j - m]
        <4>1. m < i /\ m < j /\ m \in Nat
          BY <1>1, <2>1, <2>3
        <4>2. ~(i <= m) /\ ~(j <= m)
          BY <2>1, <4>1
        <4> QED
          BY ONLY <1>2, <4>2, i \in DOMAIN u, j \in DOMAIN u
      <3>2. i - m < j - m
        BY <1>1, <2>1
      <3> QED
        BY <3>1, <3>2 DEF Rising
    <2>4. CASE i <= m /\ m < j
      <3>1. u[i] \in Frames(s) /\ u[j] \in Frames(t)
        <4>1. i \in DOMAIN s /\ u[i] = s[i] /\ j - m \in DOMAIN t /\ u[j] = t[j - m]
          BY <1>1, <1>2, <2>1, <2>4
        <4> QED
          BY <4>1 DEF Frames
      <3> QED
        BY <3>1 DEF Below
    <2> QED
      BY <1>1, <2>1, <2>2, <2>3, <2>4
  <1> QED
    BY <1>3, <1>4 DEF u

\* A part of the way that lost some of its frames.
LEMMA Fewer ==
  ASSUME NEW f, NEW g, Rising(f),
         \A p \in DOMAIN g : g[p] = 0 \/ (p \in DOMAIN f /\ g[p] = f[p])
  PROVE  Rising(g) /\ Frames(g) \subseteq Frames(f)
  BY DEF Rising, Frames

\* A lost packet leaves the rest in order.
LEMMA LossKeepsOrder ==
  ASSUME PacketLost, up \in Seq(Nat), Rising(up)
  PROVE  Rising(up') /\ Frames(up') \subseteq Frames(up)
  <1>1. PICK i \in DOMAIN up : \/ up' = SubSeq(up, 1, i - 1) \o SubSeq(up, i + 1, Len(up))
                               \/ up' = [up EXCEPT ![i] = 0]
    BY DEF PacketLost
  <1>2. Len(up) \in Nat /\ DOMAIN up = 1 .. Len(up)
    BY LenProperties
  <1>3. i \in Nat /\ i - 1 \in Nat /\ i - 1 <= i /\ i - 1 <= Len(up) /\ i <= Len(up)
    BY <1>2
  <1>4. CASE up' = SubSeq(up, 1, i - 1) \o SubSeq(up, i + 1, Len(up))
    <2> DEFINE a == SubSeq(up, 1, i - 1)
               b == SubSeq(up, i + 1, Len(up))
    <2>1. a \in Seq(Nat) /\ b \in Seq(Nat)
      BY <1>3, Suffix
    <2>2. /\ Rising(a) /\ Rising(b) /\ Below(Frames(a), Frames(b))
          /\ Frames(a) \subseteq Frames(up) /\ Frames(b) \subseteq Frames(up)
      BY <1>3, Parts
    <2> HIDE DEF a, b
    <2>3. Rising(a \o b) /\ Frames(a \o b) \subseteq Frames(a) \cup Frames(b)
      BY <2>1, <2>2, Joined
    <2> QED
      BY <1>4, <2>2, <2>3 DEF a, b
  <1>5. CASE up' = [up EXCEPT ![i] = 0]
    <2>1. \A p \in DOMAIN up' : up'[p] = 0 \/ (p \in DOMAIN up /\ up'[p] = up[p])
      BY <1>5
    <2> QED
      BY <2>1, Fewer
  <1> QED
    BY <1>1, <1>4, <1>5

-----------------------------------------------------------------------------
(* The places                                                              *)

\* What PathInv says of the types.
LEMMA PathMeans ==
  ASSUME PathInv
  PROVE  /\ up \in Seq(Nat) /\ down \in Seq(Nat) /\ heard \in Seq(Nat)
         /\ forwarder \in ForwarderRecord /\ forwarder.buffer \in Seq(Nat)
         /\ Len(given) \in Nat
  <1>1. forwarder \in ForwarderRecord /\ down \in Seq(Nat)
    BY Zenon DEF PathInv, ForwardInv, Forward!TypeOK, ForwarderRecord
  <1>2. forwarder.buffer \in Seq(Nat)
    BY <1>1 DEF ForwarderRecord
  <1>3. up \in Seq(Nat) /\ Len(given) \in Nat
    BY CaptureMeans DEF PathInv
  <1>4. heard \in Seq(Nat)
    BY PlaybackMeans DEF PathInv
  <1> QED
    BY <1>1, <1>2, <1>3, <1>4

\* The bytes still to be given are never more.
LEMMA LastPlace ==
  ASSUME Len(given) \in Nat, Len(given') \in Nat, Len(given) <= Len(given')
  PROVE  Place'[6] \subseteq Place[6]
  <1> DEFINE a == Capture!FramesIn(Len(given))
             b == Capture!FramesIn(Len(given'))
  <1>1. Place[6] = {n \in Nat : n > a} /\ Place'[6] = {n \in Nat : n > b}
    BY DEF Place, Capture!FramesIn
  <1>2. a \in Nat /\ b \in Nat /\ a <= b
    BY FramesGrow
  <1> HIDE DEF a, b
  <1> QED
    BY <1>1, <1>2

\* A step that takes frames from place k + 1 to place k only.
LEMMA Advance ==
  ASSUME OrderInv, Place'[6] \subseteq Place[6],
         NEW k \in 1 .. 5, \A i \in 1 .. 5 : i # k => Place'[i] \subseteq Place[i],
         Place'[k] \subseteq Place[k] \cup Place[k + 1],
         Place'[k] \subseteq Place[k] \/ Below(Place'[k], Place'[k + 1])
  PROVE  Ascending(Place)'
  <1>1. Ascending(Place)
    BY DEF OrderInv
  <1>2. \A i \in 1 .. 5 : \/ Place'[i] \subseteq Place[i]
                          \/ /\ Place'[i] \subseteq Place[i] \cup Place[i + 1]
                             /\ Below(Place'[i], Place'[i + 1])
    OBVIOUS
  <1>3. Place'[6] \subseteq Place[6]
    OBVIOUS
  <1>4. Ascending(Place')
    BY ONLY <1>1, <1>2, <1>3, OnePlaceOn
  <1> QED
    BY <1>4 DEF Ascending

\* A step that moves no frame on.
LEMMA Stay ==
  ASSUME OrderInv, \A i \in 1 .. 6 : Place'[i] \subseteq Place[i]
  PROVE  Ascending(Place)'
  <1>1. 1 \in 1 .. 5 /\ \A i \in 1 .. 5 : i # 1 => Place'[i] \subseteq Place[i]
    OBVIOUS
  <1>2. /\ Place'[1] \subseteq Place[1] /\ Place'[1] \subseteq Place[1] \cup Place[1 + 1]
        /\ Place'[6] \subseteq Place[6]
    OBVIOUS
  <1> QED
    BY <1>1, <1>2, Advance

-----------------------------------------------------------------------------
(* The playback ring                                                       *)

\* Where write_callback() reads next.
OutStart == IF playing.pc = "write" THEN playing.at ELSE taken

\* Outgoing is the part of out_ring_buffer between the two sides, within its bounds.
LEMMA OutgoingMeans ==
  ASSUME PathInv
  PROVE  /\ OutStart \in Nat /\ taken <= OutStart
         /\ queued \in Nat /\ taken \in Nat /\ receiver.count \in Nat /\ Channels \in Nat \ {0}
         /\ Multiple(queued)
         /\ DOMAIN Outgoing = {p \in OutStart .. queued + receiver.count - 1 : Multiple(p)}
         /\ \A p \in DOMAIN Outgoing : p \in Nat /\ Outgoing[p] = OutSample(p).n
  <1>1. /\ queued \in Nat /\ taken \in Nat /\ receiver.count \in Nat /\ Channels \in Nat \ {0}
        /\ playing.at \in Nat
    BY PlaybackMeans DEF PathInv
  <1>2. OutStart \in Nat /\ taken <= OutStart /\ Multiple(queued)
    BY <1>1 DEF OutStart, PathInv, PlaybackInv
  <1>3. DOMAIN Outgoing = {p \in OutStart .. queued + receiver.count - 1 : Multiple(p)}
    BY DEF Outgoing, OutStart
  <1>4. ASSUME NEW p \in DOMAIN Outgoing PROVE p \in Nat /\ Outgoing[p] = OutSample(p).n
    BY <1>1, <1>2, <1>3 DEF Outgoing
  <1> QED
    BY <1>1, <1>2, <1>3, <1>4

\* read_samples() queues the first frames of down behind all that is queued.
LEMMA ReceiverTakes ==
  ASSUME PathInv, OrderInv, Playback!ReceiverReads
  PROVE  /\ Rising(Outgoing') /\ Frames(Outgoing') \subseteq Frames(Outgoing) \cup Frames(down)
         /\ Rising(down') /\ Frames(down') \subseteq Frames(down)
         /\ Below(Frames(Outgoing'), Frames(down'))
  <1> DEFINE new == SubSeq(down, 1, BufferFrames)
             count == receiver'.count
             Index(p) == (p - queued) \div Channels + 1
  <1>1. /\ queued' = queued /\ taken' = taken /\ playing' = playing /\ receiver.count = 0
        /\ down' = SubSeq(down, BufferFrames + 1, Len(down)) /\ BufferFrames <= Len(down)
        /\ down \in Seq(Nat) /\ count \in Nat
        /\ \A p \in taken .. queued - 1 : OutSample(p)' = OutSample(p)
        /\ \A p \in queued .. queued + count - 1 :
             /\ Index(p) \in 1 .. BufferFrames
             /\ OutSample(p)'.n = down[Index(p)]
    <2>1. count \in Nat
      BY ReadsQueue DEF PathInv, ReceiverRecord
    <2>2. ASSUME NEW p \in queued .. queued + count - 1
          PROVE  Index(p) \in 1 .. BufferFrames /\ OutSample(p)'.n = down[Index(p)]
      <3>1. /\ Index(p) \in 1 .. BufferFrames
            /\ OutSample(p)' = [n |-> down[Index(p)], ch |-> (p - queued) % Channels]
        BY ReadsQueue DEF PathInv
      <3> QED
        BY <3>1
    <2> HIDE DEF Index
    <2> QED
      BY <2>1, <2>2, ReadsQueue, PlaybackMeans DEF PathInv
  <1> HIDE DEF count
  <1>q. /\ OutStart \in Nat /\ taken <= OutStart /\ queued \in Nat /\ taken \in Nat
        /\ Channels \in Nat \ {0} /\ Multiple(queued)
    BY OutgoingMeans
  <1>2. /\ Rising(new) /\ Rising(down') /\ Below(Frames(new), Frames(down'))
        /\ Frames(new) \subseteq Frames(down) /\ Frames(down') \subseteq Frames(down)
    BY <1>1, Parts, SizesAssumption DEF OrderInv
  <1>3. DOMAIN new = 1 .. BufferFrames /\ \A i \in 1 .. BufferFrames : new[i] = down[i]
    <2>1. \A i \in 1 .. BufferFrames : down[i] \in Nat
      BY <1>1, LenProperties, ElementOfSeq, SizesAssumption
    <2> QED
      BY <2>1, SubSeqProperties, LenProperties, SizesAssumption
  <1> HIDE DEF new
  <1>4. DOMAIN Outgoing' = {p \in OutStart .. queued + count - 1 : Multiple(p)}
    BY <1>1 DEF Outgoing, OutStart, count, Multiple
  <1>5. DOMAIN Outgoing = {p \in OutStart .. queued + 0 - 1 : Multiple(p)}
    BY <1>1, OutgoingMeans
  <1>6. ASSUME NEW p \in DOMAIN Outgoing', p < queued
        PROVE  p \in DOMAIN Outgoing /\ Outgoing'[p] = Outgoing[p]
    <2>1. p \in DOMAIN Outgoing /\ p \in taken .. queued - 1
      BY <1>4, <1>5, <1>6, <1>q
    <2>2. OutSample(p)' = OutSample(p)
      BY <1>1, <2>1
    <2>3. Outgoing'[p] = OutSample(p)'.n
      BY DEF Outgoing, OutSample, Playback!Slot
    <2> QED
      BY <2>1, <2>2, <2>3, OutgoingMeans
  <1>7. ASSUME NEW p \in DOMAIN Outgoing', ~(p < queued)
        PROVE  Index(p) \in DOMAIN new /\ Outgoing'[p] = new[Index(p)]
    <2>1. p \in queued .. queued + count - 1
      BY <1>1, <1>4, <1>7, <1>q
    <2>2. Outgoing'[p] = OutSample(p)'.n
      BY DEF Outgoing, OutSample, Playback!Slot
    <2> HIDE DEF Index
    <2> QED
      BY <1>1, <1>3, <2>1, <2>2
  <1>8. Below(Frames(Outgoing), Frames(down))
    <2>1. Below(Place[2], Place[3])
      BY DEF OrderInv, Ascending
    <2> QED
      BY <2>1 DEF Place
  <1>9. Frames(Outgoing') \subseteq Frames(Outgoing) \cup Frames(new)
    <2> HIDE DEF Index
    <2> QED
      BY <1>6, <1>7 DEF Frames
  <1>10. Rising(Outgoing')
    <2> SUFFICES ASSUME NEW p \in DOMAIN Outgoing', NEW q \in DOMAIN Outgoing', p < q,
                        Outgoing'[p] # 0, Outgoing'[q] # 0
                 PROVE  Outgoing'[p] < Outgoing'[q]
      BY DEF Rising
    <2>1. p \in Int /\ q \in Int /\ Multiple(p) /\ Multiple(q)
      BY <1>1, <1>4, <1>q
    <2>2. CASE q < queued
      BY <1>6, <1>q, <2>1, <2>2 DEF OrderInv, Rising
    <2>3. CASE p < queued /\ ~(q < queued)
      <3>1. Outgoing'[p] \in Frames(Outgoing)
        BY <1>6, <2>3 DEF Frames
      <3>2. Outgoing'[q] \in Frames(new)
        <4>1. Index(q) \in DOMAIN new /\ Outgoing'[q] = new[Index(q)]
          BY <1>7, <2>3
        <4> HIDE DEF Index
        <4> QED
          BY <4>1 DEF Frames
      <3> QED
        BY <1>2, <1>8, <3>1, <3>2 DEF Below
    <2>4. CASE ~(p < queued)
      <3>1. Index(p) < Index(q)
        <4>1. Multiple(p - queued) /\ Multiple(q - queued)
          <5>1. /\ p \in Int /\ q \in Int /\ queued \in Int
                /\ Multiple(p) /\ Multiple(q) /\ Multiple(queued)
            BY <1>q, <2>1
          <5> QED
            BY ONLY <5>1, MultipleSum
        <4>2. PICK k \in Int : p - queued = Channels * k + 0
          BY <1>q, <2>1, <4>1, MultipleOf
        <4>3. PICK l \in Int : q - queued = Channels * l + 0
          BY <1>q, <2>1, <4>1, MultipleOf
        <4>4. k < l
          <5> SUFFICES ASSUME l <= k PROVE FALSE
            OBVIOUS
          <5>1. Channels * l <= Channels * k
            <6>1. Channels * (k - l) >= 0
              BY <1>q
            <6> QED
              BY <6>1, <1>q
          <5> QED
            BY <1>q, <2>1, <4>2, <4>3, <5>1
        <4> DEFINE a == p - queued
                   b == q - queued
        <4>5. /\ a \in Int /\ b \in Int /\ a = Channels * k + 0 /\ b = Channels * l + 0
              /\ 0 \in 0 .. Channels - 1
          BY <1>q, <2>1, <4>2, <4>3
        <4> HIDE DEF a, b
        <4>6. a \div Channels = k /\ b \div Channels = l
          BY ONLY <1>q, <4>5, k \in Int, l \in Int, Remainder
        <4> QED
          BY <4>4, <4>6 DEF a, b
      <3>2. /\ Index(p) \in DOMAIN new /\ Outgoing'[p] = new[Index(p)]
            /\ Index(q) \in DOMAIN new /\ Outgoing'[q] = new[Index(q)]
        BY <1>7, <1>q, <2>1, <2>4
      <3> HIDE DEF Index
      <3> QED
        BY <1>2, <3>1, <3>2 DEF Rising
    <2> QED
      BY <2>2, <2>3, <2>4
  <1>11. Below(Frames(Outgoing'), Frames(down'))
    BY <1>2, <1>8, <1>9 DEF Below
  <1> QED
    BY <1>2, <1>9, <1>10, <1>11

\* The steps of write_callback() go on in the ring; only one of them plays something.
LEMMA OutgoingLoses ==
  ASSUME PathInv, Playback!Callback \/ Playback!ReceiverAdvances
  PROVE  /\ \A p \in DOMAIN Outgoing' : p \in DOMAIN Outgoing /\ Outgoing'[p] = Outgoing[p]
         /\ \/ heard' = heard
            \/ /\ playing.at \in DOMAIN Outgoing /\ Outgoing[playing.at] # 0
               /\ heard' = Append(heard, Outgoing[playing.at])
               /\ \A p \in DOMAIN Outgoing' : playing.at < p
         /\ down' = down
  <1>q. /\ OutStart \in Nat /\ taken <= OutStart /\ queued \in Nat /\ taken \in Nat
        /\ receiver.count \in Nat /\ Channels \in Nat \ {0}
        /\ playing.count \in Nat /\ playing.left \in Nat /\ playing.at \in Nat
    BY OutgoingMeans, PlaybackMeans DEF PathInv
  <1>s. ASSUME outRing' = outRing, queued' + receiver'.count = queued + receiver.count,
               queued' \in Nat, receiver'.count \in Nat,
               OutStart' \in Nat, OutStart <= OutStart'
        PROVE  \A p \in DOMAIN Outgoing' : p \in DOMAIN Outgoing /\ Outgoing'[p] = Outgoing[p]
    <2> SUFFICES ASSUME NEW p \in DOMAIN Outgoing'
                 PROVE  p \in DOMAIN Outgoing /\ Outgoing'[p] = Outgoing[p]
      OBVIOUS
    <2>1. DOMAIN Outgoing' = {r \in OutStart' .. (queued + receiver.count) - 1 : Multiple(r)}
      <3>1. DOMAIN Outgoing' = {r \in OutStart' .. queued' + receiver'.count - 1 : Multiple(r)}
        BY DEF Outgoing, OutStart, Multiple
      <3>2. queued' + receiver'.count - 1 = (queued + receiver.count) - 1
        BY <1>q, <1>s
      <3> QED
        BY <3>1, <3>2
    <2>2. p \in DOMAIN Outgoing
      BY <1>q, <1>s, <2>1, OutgoingMeans
    <2> QED
      BY <1>s, <2>2 DEF Outgoing, OutSample, Playback!Slot
  <1>1. CASE Playback!ReceiverAdvances
    <2>1. /\ queued' = queued + receiver.count /\ receiver'.count = 0 /\ outRing' = outRing
          /\ taken' = taken /\ playing' = playing /\ heard' = heard /\ down' = down
      BY <1>1 DEF Playback!ReceiverAdvances, Playback!Listening
    <2>2. queued' + receiver'.count = queued + receiver.count /\ OutStart' = OutStart
      BY <1>q, <2>1 DEF OutStart
    <2> QED
      BY <1>q, <1>s, <2>1, <2>2
  <1>2. ASSUME NEW min \in Minima,
               \/ Playback!CallbackFindsTooLittle(min)
               \/ \E max \in 1 .. PlaybackSlots \div Channels : Playback!CallbackFindsEnough(min, max)
        PROVE  OutStart' = OutStart /\ UNCHANGED <<outRing, queued, receiver, heard, down>>
    <2>1. /\ playing.pc = "rest" /\ UNCHANGED <<outRing, queued, taken, receiver, heard, down>>
          /\ playing'.pc = "silence" \/ (playing'.pc = "write" /\ playing'.at = taken)
      <3>1. CASE Playback!CallbackFindsTooLittle(min)
        BY <3>1 DEF Playback!CallbackFindsTooLittle, Playback!Resting
      <3>2. ASSUME NEW max \in 1 .. PlaybackSlots \div Channels,
                   Playback!CallbackFindsEnough(min, max)
            PROVE  /\ playing.pc = "rest" /\ playing'.pc = "write" /\ playing'.at = taken
                   /\ UNCHANGED <<outRing, queued, taken, receiver, heard, down>>
        BY <3>2 DEF Playback!CallbackFindsEnough
      <3> QED
        BY <1>2, <3>1, <3>2
    <2> QED
      BY <2>1 DEF OutStart
  <1>3. CASE Playback!CallbackWritesSilence
    <2>1. /\ playing.pc = "silence"
          /\ UNCHANGED <<outRing, queued, taken, receiver, heard, down>>
      BY <1>3 DEF Playback!CallbackWritesSilence
    <2>2. playing \in PlayingRecord
      BY PlaybackMeans DEF PathInv
    <2>3. PICK took \in 0 .. playing.left :
            playing' = IF took = 0 THEN Playback!Resting ELSE [playing EXCEPT !.left = took]
      BY <1>3 DEF Playback!CallbackWritesSilence
    <2>4. playing'.pc # "write"
      BY <2>1, <2>2, <2>3 DEF PlayingRecord, Playback!Resting
    <2>5. OutStart' = OutStart /\ queued' + receiver'.count = queued + receiver.count
      BY <2>1, <2>4 DEF OutStart
    <2> QED
      BY <1>q, <1>s, <2>1, <2>5
  <1>4. CASE Playback!CallbackCopies
    <2>1. /\ playing.pc = "write" /\ playing'.pc = "write" /\ playing'.at = playing.at + Channels
          /\ playing.at \in Filled
          /\ speaker'[0].n = OutSample(playing.at).n
          /\ UNCHANGED <<down, outRing, queued, taken, receiver>>
      <3>1. 0 \in 0 .. Channels - 1
        BY <1>q
      <3>2. speaker'[0] = [n |-> OutSample(playing.at).n, ch |-> 0]
        BY <1>4, <3>1, CopiesFrame DEF PathInv
      <3>3. /\ playing.pc = "write"
            /\ playing' = [pc |-> "write", count |-> playing.count, left |-> playing.left - 1,
                           at |-> playing.at + Channels]
            /\ playing.at \in Filled
            /\ UNCHANGED <<down, outRing, queued, taken, receiver>>
        BY <1>4, CopiesFrame DEF PathInv
      <3> QED
        BY <3>2, <3>3
    <2>2. OutStart = playing.at /\ OutStart' = playing.at + Channels
      BY <2>1 DEF OutStart
    <2>3. \A p \in DOMAIN Outgoing' : p \in DOMAIN Outgoing /\ Outgoing'[p] = Outgoing[p]
      BY <1>q, <1>s, <2>1, <2>2
    <2>4. playing.at \in DOMAIN Outgoing
      <3>1. Multiple(playing.at)
        BY <2>1 DEF PathInv, PlaybackInv
      <3>2. playing.at \in OutStart .. queued + receiver.count - 1
        BY <1>q, <2>1, <2>2 DEF Filled
      <3> QED
        BY <3>1, <3>2, OutgoingMeans
    <2>5. Outgoing[playing.at] = OutSample(playing.at).n
      BY <2>4, OutgoingMeans
    <2>6. ASSUME NEW p \in DOMAIN Outgoing' PROVE playing.at < p
      <3>1. p \in {r \in OutStart' .. queued' + receiver'.count - 1 : Multiple(r)}
        BY DEF Outgoing, OutStart, Multiple
      <3>2. p \in playing.at + Channels .. queued + receiver.count - 1
        BY <2>1, <2>2, <3>1
      <3> QED
        BY <1>q, <3>2
    <2>7. \/ heard' = heard
          \/ Outgoing[playing.at] # 0 /\ heard' = Append(heard, Outgoing[playing.at])
      BY <1>4, <2>5, HeardGrows DEF PathInv
    <2> QED
      BY <2>1, <2>3, <2>4, <2>6, <2>7
  <1>7. CASE Playback!CallbackMiswrites
    <2>1. /\ playing.pc = "write" /\ playing \in PlayingRecord
          /\ playing' = [playing EXCEPT !.left = @ - 1, !.at = @ + Channels]
          /\ UNCHANGED <<outRing, queued, taken, receiver, heard, down>>
      BY <1>7, PlaybackMeans DEF Playback!CallbackMiswrites, PathInv
    <2>2. playing'.pc = "write" /\ playing'.at = playing.at + Channels
      BY <2>1 DEF PlayingRecord
    <2>3. OutStart = playing.at /\ OutStart' = playing.at + Channels
      BY <2>1, <2>2 DEF OutStart
    <2>4. OutStart' \in Nat /\ OutStart <= OutStart'
      BY <1>q, <2>3
    <2> QED
      BY <1>q, <1>s, <2>1, <2>4
  <1>5. CASE Playback!CallbackEnds
    <2>1. /\ playing.pc = "write" /\ playing'.pc = "rest"
          /\ taken' = taken + playing.count * Channels
          /\ UNCHANGED <<outRing, queued, receiver, heard, down>>
      BY <1>5 DEF Playback!CallbackEnds, Playback!Resting
    <2>2. OutStart = playing.at /\ OutStart' = taken'
      BY <2>1 DEF OutStart
    <2>3. playing.at <= taken' /\ taken' \in Nat
      <3>1. /\ playing.left * Channels \in Nat /\ playing.count * Channels \in Nat
        BY <1>q, Product
      <3>2. playing.at + (playing.left * Channels) <= taken + (playing.count * Channels)
        BY <2>1 DEF PathInv, PlaybackInv
      <3> DEFINE rest == playing.left * Channels
                 size == playing.count * Channels
      <3>3. /\ rest \in Nat /\ size \in Nat /\ playing.at + rest <= taken + size
            /\ taken' = taken + size
        BY <2>1, <3>1, <3>2
      <3> HIDE DEF rest, size
      <3> QED
        BY ONLY <1>q, <3>3
    <2>4. queued' + receiver'.count = queued + receiver.count
      BY <2>1
    <2> QED
      BY <1>q, <1>s, <2>1, <2>2, <2>3, <2>4
  <1>6. ASSUME OutStart' = OutStart, UNCHANGED <<outRing, queued, receiver, heard, down>>
        PROVE  /\ \A p \in DOMAIN Outgoing' : p \in DOMAIN Outgoing /\ Outgoing'[p] = Outgoing[p]
               /\ heard' = heard /\ down' = down
    BY <1>6, <1>q, <1>s
  <1> QED
    BY <1>1, <1>2, <1>3, <1>4, <1>5, <1>6, <1>7 DEF Playback!Callback

-----------------------------------------------------------------------------
(* The order is kept                                                       *)

\* An empty sequence is in order.
LEMMA NoFrames == Rising(<<>>) /\ Frames(<<>>) = {}
  <1>1. <<>> \in Seq(Nat) /\ Len(<<>>) = 0
    BY EmptySeq
  <1>2. DOMAIN <<>> = {}
    BY <1>1, LenProperties
  <1> QED
    BY <1>2 DEF Rising, Frames

\* There are no frames yet.
LEMMA OrderStarts == Init => OrderInv
  <1> SUFFICES ASSUME Init PROVE OrderInv
    OBVIOUS
  <1>1. up = <<>> /\ forwarder.buffer = <<>> /\ down = <<>> /\ heard = <<>>
    BY DEF Init, Capture!Init, Forward!Init, Forward!Waiting, Playback!Init
  <1>2. queued = 0 /\ taken = 0 /\ receiver.count = 0 /\ playing.pc = "rest"
    BY DEF Init, Playback!Init, Playback!Listening, Playback!Resting
  <1>3. DOMAIN Outgoing = {}
    BY <1>2 DEF Outgoing
  <1>4. Rising(Outgoing) /\ Frames(Outgoing) = {}
    BY <1>3 DEF Rising, Frames
  <1>5. /\ Place[1] = {} /\ Place[2] = {} /\ Place[3] = {} /\ Place[4] = {}
        /\ Place[5] = {}
    BY <1>1, <1>4, NoFrames DEF Place
  <1>6. Ascending(Place)
    <2> SUFFICES ASSUME NEW i \in 1 .. 6, NEW j \in 1 .. 6, i < j, NEW x \in Place[i]
                 PROVE  FALSE
      BY DEF Ascending, Below
    <2>1. i \in {1, 2, 3, 4, 5}
      OBVIOUS
    <2> QED
      BY <1>5, <2>1
  <1> QED
    BY <1>1, <1>4, <1>6, NoFrames DEF OrderInv

\* What the capture side leaves alone.
elsewhere == <<heard, outRing, queued, taken, receiver, playing, down, forwarder>>

\* The capture side moves no frame nearer to the listener than up.
LEMMA ElsewhereSame ==
  ASSUME UNCHANGED elsewhere
  PROVE  /\ Outgoing' = Outgoing /\ Place'[1] = Place[1] /\ Place'[2] = Place[2]
         /\ Place'[3] = Place[3] /\ Place'[4] = Place[4]
  <1>1. Outgoing' = Outgoing
    BY DEF elsewhere, Outgoing, OutSample, Multiple
  <1> QED
    BY <1>1 DEF elsewhere, Place

\* Sending puts the next frames behind all others; recording puts none anywhere.
LEMMA OrderCapture ==
  ASSUME PathInv, PathInv', OrderInv, Capture!Next, UNCHANGED elsewhere
  PROVE  OrderInv'
  <1>1. down' = down /\ forwarder' = forwarder
    BY DEF elsewhere
  <1>2. Rising(down') /\ Rising(forwarder'.buffer) /\ Rising(Outgoing')
    BY <1>1, ElsewhereSame DEF OrderInv
  <1>3. CASE Capture!SenderWrites
    <2> DEFINE a == Capture!FramesIn(Len(given))
               b == Capture!FramesIn(Len(given'))
    <2>1. PICK new \in Seq(Nat) : /\ up' = up \o new /\ Len(new) = b - a
                                  /\ \A i \in 1 .. Len(new) : new[i] = a + i
      BY <1>3, SenderGives DEF PathInv
    <2>2. Len(given) \in Nat /\ Len(given') \in Nat /\ Len(given) <= Len(given')
      BY <1>3, SenderGives, RingMeans DEF PathInv
    <2>3. a \in Nat /\ b \in Nat /\ a <= b
      BY <2>2, FramesGrow
    <2>p. Place[5] = Frames(up) /\ Place'[5] = Frames(up')
          /\ Place[6] = {n \in Nat : n > a} /\ Place'[6] = {n \in Nat : n > b}
      BY DEF Place, Capture!FramesIn
    <2>l. Place'[6] \subseteq Place[6]
      BY <2>2, LastPlace
    <2> HIDE DEF a, b
    <2>4. DOMAIN new = 1 .. Len(new)
      BY LenProperties
    <2>5. Rising(new) /\ Frames(new) \subseteq {n \in Nat : n > a /\ n <= b}
      <3>1. \A i \in DOMAIN new : i \in Nat /\ new[i] = a + i /\ 1 <= i /\ i <= b - a
        <4> DEFINE k == Len(new)
        <4>1. k = b - a /\ DOMAIN new = 1 .. k /\ \A i \in 1 .. k : new[i] = a + i
          BY <2>1, <2>4
        <4> HIDE DEF k
        <4> QED
          BY ONLY <2>3, <4>1
      <3> QED
        BY <2>3, <3>1 DEF Rising, Frames
    <2>6. Below(Frames(up), Frames(new))
      <3>1. Below(Place[5], Place[6])
        BY DEF OrderInv, Ascending
      <3> QED
        BY <2>5, <2>p, <3>1 DEF Below
    <2>7. Rising(up') /\ Frames(up') \subseteq Frames(up) \cup Frames(new)
      BY <2>1, <2>5, <2>6, Joined, PathMeans DEF OrderInv
    <2>8. Below(Place'[5], Place'[6])
      <3> SUFFICES ASSUME NEW x \in Frames(up'), NEW y \in Nat, y > b PROVE x < y
        BY <2>p DEF Below
      <3>1. CASE x \in Frames(new)
        <4>1. x \in Nat /\ x <= b
          BY <2>5, <3>1
        <4> QED
          BY <2>3, <4>1
      <3>2. CASE x \in Frames(up)
        <4>1. y \in Place[6]
          <5>1. y > a
            BY <2>3
          <5> QED
            BY <2>p, <5>1
        <4>2. Below(Place[5], Place[6])
          BY DEF OrderInv, Ascending
        <4> QED
          BY <2>p, <3>2, <4>1, <4>2 DEF Below
      <3> QED
        BY <2>7, <3>1, <3>2
    <2>9. /\ \A i \in 1 .. 5 : i # 5 => Place'[i] \subseteq Place[i]
          /\ Place'[5] \subseteq Place[5] \cup Place[5 + 1]
          /\ Below(Place'[5], Place'[5 + 1])
      <3>1. \A i \in 1 .. 5 : i # 5 => i \in {1, 2, 3, 4}
        OBVIOUS
      <3>2. Place'[5] \subseteq Place[5] \cup Place[6]
        BY <2>5, <2>7, <2>p
      <3> QED
        BY <2>8, <3>1, <3>2, ElsewhereSame
    <2>10. Ascending(Place)'
      BY <2>l, <2>9, Advance
    <2> QED
      BY <1>2, <2>7, <2>10 DEF OrderInv
  <1>4. CASE ~Capture!SenderWrites
    <2>1. up' = up /\ given' = given
      BY <1>4 DEF Capture!Next, Capture!Record, Capture!DeviceOverruns, Capture!CallbackStarts,
        Capture!CallbackCopies, Capture!CallbackMisreads, Capture!CallbackMeetsHole,
        Capture!CallbackEnds, Capture!SenderFails, Capture!SenderAdvances
    <2>2. Place' = Place
      BY <1>1, <2>1, ElsewhereSame DEF elsewhere, Place, Capture!FramesIn
    <2> QED
      BY <1>2, <2>1, <2>2 DEF OrderInv
  <1> QED
    BY <1>3, <1>4

\* What the server's steps and a lost packet leave alone.
atTheEnds == <<heard, outRing, queued, taken, receiver, playing, ring>>

\* The server and the network touch neither ring.
LEMMA EndsSame ==
  ASSUME UNCHANGED atTheEnds
  PROVE  /\ Outgoing' = Outgoing
         /\ Place'[1] = Place[1] /\ Place'[2] = Place[2] /\ Place'[6] = Place[6]
  <1>1. Outgoing' = Outgoing
    BY DEF atTheEnds, Outgoing, OutSample, Multiple
  <1> QED
    BY <1>1 DEF atTheEnds, ring, Place, Capture!FramesIn

\* Handing on by the server, and losing a packet.
LEMMA OrderForward ==
  ASSUME PathInv, PathInv', OrderInv, Forward!Next \/ (PacketLost /\ forwarder' = forwarder),
         UNCHANGED atTheEnds
  PROVE  OrderInv'
  <1>1. Rising(Outgoing')
    BY EndsSame DEF OrderInv
  <1>2. Place'[6] \subseteq Place[6]
    BY EndsSame
  <1>t. up \in Seq(Nat) /\ down \in Seq(Nat) /\ forwarder.buffer \in Seq(Nat)
    BY PathMeans
  <1>s. ASSUME Rising(up'), Rising(down'), Rising(forwarder'.buffer),
               Frames(up') \subseteq Frames(up), Frames(down') \subseteq Frames(down),
               Frames(forwarder'.buffer) \subseteq Frames(forwarder.buffer)
        PROVE  OrderInv'
    <2>1. \A i \in 1 .. 6 : Place'[i] \subseteq Place[i]
      BY <1>s, EndsSame DEF Place
    <2>2. Ascending(Place)'
      BY <2>1, Stay
    <2> QED
      BY <1>1, <1>s, <2>2 DEF OrderInv
  <1>r. Rising(up) /\ Rising(down) /\ Rising(forwarder.buffer)
    BY DEF OrderInv
  <1>b. ASSUME up' = up, down' = down,
               forwarder'.buffer = forwarder.buffer \/ forwarder'.buffer = <<>>
        PROVE  OrderInv'
    <2>1. Rising(up') /\ Rising(down') /\ Frames(up') = Frames(up) /\ Frames(down') = Frames(down)
      BY <1>b, <1>r
    <2>2. /\ Rising(forwarder'.buffer)
          /\ Frames(forwarder'.buffer) \subseteq Frames(forwarder.buffer)
      BY <1>b, <1>r, NoFrames
    <2> QED
      BY ONLY <1>s, <2>1, <2>2
  <1>3. ASSUME NEW c \in Client, Forward!AddClientTransmission(c) PROVE OrderInv'
    <2>1. forwarder \in ForwarderRecord
      BY PathMeans
    <2>2. PICK f \in BOOLEAN : forwarder' = [forwarder EXCEPT !.freed = f]
      BY <1>3, <2>1 DEF Forward!AddClientTransmission, ForwarderRecord
    <2>3. forwarder'.buffer = forwarder.buffer
      BY <2>1, <2>2 DEF ForwarderRecord
    <2>4. up' = up /\ down' = down
      BY <1>3 DEF Forward!AddClientTransmission
    <2> QED
      BY <1>b, <2>3, <2>4
  <1>4. CASE Forward!ForwarderReads
    <2>1. /\ forwarder.pc = "read" /\ forwarder'.buffer = SubSeq(up, 1, BufferFrames)
          /\ up' = SubSeq(up, BufferFrames + 1, Len(up)) /\ BufferFrames <= Len(up)
          /\ down' = down
      BY <1>4 DEF Forward!ForwarderReads, Forward!Waiting
    <2>2. /\ Rising(forwarder'.buffer) /\ Rising(up')
          /\ Below(Frames(forwarder'.buffer), Frames(up'))
          /\ Frames(forwarder'.buffer) \subseteq Frames(up) /\ Frames(up') \subseteq Frames(up)
      BY <1>t, <2>1, Parts, SizesAssumption DEF OrderInv
    <2>3. /\ \A i \in 1 .. 5 : i # 4 => Place'[i] \subseteq Place[i]
          /\ Place'[4] \subseteq Place[4] \cup Place[4 + 1]
          /\ Below(Place'[4], Place'[4 + 1])
      BY <2>1, <2>2, EndsSame DEF Place
    <2>4. Ascending(Place)'
      BY <1>2, <2>3, Advance
    <2> QED
      BY <1>1, <2>1, <2>2, <2>4 DEF OrderInv
  <1>5. CASE Forward!ForwarderLooks
    <2>1. /\ up' = up /\ down' = down
          /\ forwarder' = Forward!Waiting \/ forwarder' = [forwarder EXCEPT !.pc = "first"]
      BY <1>5 DEF Forward!ForwarderLooks
    <2>2. forwarder \in ForwarderRecord
      BY PathMeans
    <2>3. forwarder'.buffer = forwarder.buffer \/ forwarder'.buffer = <<>>
      BY <2>1, <2>2 DEF ForwarderRecord, Forward!Waiting
    <2> QED
      BY <1>b, <2>1, <2>3
  <1>6. CASE Forward!ForwarderWrites
    <2>1. /\ forwarder'.buffer = <<>> /\ up' = up
          /\ down' = down \o forwarder.buffer \/ down' = down
      BY <1>6 DEF Forward!ForwarderWrites, Forward!Waiting
    <2>2. Below(Frames(down), Frames(forwarder.buffer))
      <3>1. Below(Place[3], Place[4])
        BY DEF OrderInv, Ascending
      <3> QED
        BY <3>1 DEF Place
    <2>3. Rising(down') /\ Frames(down') \subseteq Frames(down) \cup Frames(forwarder.buffer)
      BY <1>t, <2>1, <2>2, Joined DEF OrderInv
    <2>4. /\ \A i \in 1 .. 5 : i # 3 => Place'[i] \subseteq Place[i]
          /\ Place'[3] \subseteq Place[3] \cup Place[3 + 1]
          /\ Below(Place'[3], Place'[3 + 1])
      BY <2>1, <2>3, EndsSame, NoFrames DEF Place, Below
    <2>5. Ascending(Place)'
      BY <1>2, <2>4, Advance
    <2> QED
      BY <1>1, <2>1, <2>3, <2>5, NoFrames DEF OrderInv
  <1>7. CASE Forward!RaceKills
    <2>1. up' = up /\ down' = down /\ forwarder'.buffer = <<>>
      BY <1>7 DEF Forward!RaceKills, Forward!Waiting
    <2> QED
      BY ONLY <1>b, <2>1
  <1>8. CASE PacketLost /\ forwarder' = forwarder
    <2>1. down' = down
      BY <1>8 DEF PacketLost
    <2>2. Rising(up') /\ Frames(up') \subseteq Frames(up)
      BY <1>r, <1>t, <1>8, LossKeepsOrder
    <2>3. /\ Rising(down') /\ Frames(down') \subseteq Frames(down)
          /\ Rising(forwarder'.buffer)
          /\ Frames(forwarder'.buffer) \subseteq Frames(forwarder.buffer)
      BY <1>8, <1>r, <2>1
    <2> QED
      BY ONLY <1>s, <2>2, <2>3
  <1> QED
    BY <1>3, <1>4, <1>5, <1>6, <1>7, <1>8 DEF Forward!Next

\* One more frame has been heard.
LEMMA HeardFrames ==
  ASSUME heard \in Seq(Nat), NEW n \in Nat, n # 0, heard' = Append(heard, n)
  PROVE  Frames(heard') = Frames(heard) \cup {n}
  <1>1. /\ Len(heard) \in Nat /\ DOMAIN heard = 1 .. Len(heard)
        /\ heard' \in Seq(Nat) /\ Len(heard') = Len(heard) + 1
        /\ \A i \in 1 .. Len(heard) : heard'[i] = heard[i]
        /\ heard'[Len(heard) + 1] = n
    BY LenProperties, AppendProperties
  <1>2. DOMAIN heard' = 1 .. Len(heard) + 1
    BY <1>1, LenProperties
  <1> QED
    BY <1>1, <1>2 DEF Frames

\* Before the listener: what write_callback() plays is the next frame, or none.
LEMMA OrderPlayback ==
  ASSUME PathInv, PathInv', OrderInv, Playback!Next,
         UNCHANGED <<recorded, ring, forwarder, up>>
  PROVE  OrderInv' /\ (heard' = heard \/ Stream!Hear)
  <1>1. given' = given /\ forwarder' = forwarder /\ up' = up
    BY DEF ring
  <1>2. /\ Rising(forwarder'.buffer) /\ Rising(up')
        /\ Place'[4] = Place[4] /\ Place'[5] = Place[5] /\ Place'[6] = Place[6]
    BY <1>1 DEF OrderInv, Place, Capture!FramesIn
  <1>3. CASE Playback!ReceiverReads
    <2>1. /\ Rising(Outgoing') /\ Frames(Outgoing') \subseteq Frames(Outgoing) \cup Frames(down)
          /\ Rising(down') /\ Frames(down') \subseteq Frames(down)
          /\ Below(Frames(Outgoing'), Frames(down'))
      BY <1>3, ReceiverTakes
    <2>2. heard' = heard
      BY <1>3 DEF Playback!ReceiverReads
    <2>3. /\ \A i \in 1 .. 5 : i # 2 => Place'[i] \subseteq Place[i]
          /\ Place'[2] \subseteq Place[2] \cup Place[2 + 1]
          /\ Below(Place'[2], Place'[2 + 1])
      BY <1>2, <2>1, <2>2 DEF Place
    <2>4. Ascending(Place)'
      BY <1>2, <2>3, Advance
    <2> QED
      BY <1>2, <2>1, <2>2, <2>4 DEF OrderInv
  <1>4. CASE Playback!Callback \/ Playback!ReceiverAdvances
    <2>1. /\ \A p \in DOMAIN Outgoing' : p \in DOMAIN Outgoing /\ Outgoing'[p] = Outgoing[p]
          /\ \/ heard' = heard
             \/ /\ playing.at \in DOMAIN Outgoing /\ Outgoing[playing.at] # 0
                /\ heard' = Append(heard, Outgoing[playing.at])
                /\ \A p \in DOMAIN Outgoing' : playing.at < p
          /\ down' = down
      BY <1>4, OutgoingLoses
    <2>2. Rising(Outgoing') /\ Frames(Outgoing') \subseteq Frames(Outgoing)
      BY <2>1, Fewer DEF OrderInv
    <2>3. \A i \in 2 .. 6 : Place'[i] \subseteq Place[i]
      <3>1. \A i \in 2 .. 6 : i \in {2, 3, 4, 5, 6}
        OBVIOUS
      <3>2. Place'[2] \subseteq Place[2] /\ Place'[3] \subseteq Place[3]
        BY <2>1, <2>2 DEF Place
      <3> QED
        BY <1>2, <3>1, <3>2
    <2>4. CASE heard' = heard
      <3>1. \A i \in 1 .. 6 : Place'[i] \subseteq Place[i]
        <4>1. \A i \in 1 .. 6 : i = 1 \/ i \in 2 .. 6
          OBVIOUS
        <4>2. Place'[1] = Place[1]
          BY <2>4 DEF Place
        <4> QED
          BY <2>3, <4>1, <4>2
      <3>2. Ascending(Place)'
        BY <3>1, Stay
      <3> QED
        BY <1>2, <2>1, <2>2, <2>4, <3>2 DEF OrderInv
    <2>5. CASE heard' # heard
      <3> DEFINE n == Outgoing[playing.at]
      <3>1. n # 0 /\ heard' = Append(heard, n) /\ n \in Frames(Outgoing) /\ n \in Place[2]
        BY <2>1, <2>5 DEF Frames, Place
      <3>2. n \in Nat /\ heard \in Seq(Nat)
        <4>1. playing.at \in DOMAIN Outgoing /\ playing.at \in Nat /\ n = OutSample(playing.at).n
          BY <2>1, <2>5, OutgoingMeans
        <4>2. Playback!Slot(playing.at) \in 0 .. PlaybackSlots - 1
          <5>1. playing.at \in Int /\ PlaybackSlots \in Nat \ {0}
            BY <4>1, SizesAssumption
          <5> QED
            BY ONLY <5>1, DivMod DEF Playback!Slot
        <4>3. OutSample(playing.at) \in Playback!Sample
          BY <4>2, PlaybackMeans DEF OutSample, PathInv
        <4> QED
          BY <4>1, <4>3, PathMeans DEF Playback!Sample
      <3>3. \A p \in DOMAIN Outgoing' : Outgoing'[p] # 0 => n < Outgoing'[p]
        BY <2>1, <2>5 DEF OrderInv, Rising
      <3> HIDE DEF n
      <3>4. Frames(heard') = Frames(heard) \cup {n}
        BY <3>1, <3>2, HeardFrames
      <3>5. Place'[1] = Place[1] \cup {n} /\ Place'[1] \subseteq Place[1] \cup Place[1 + 1]
        BY <3>1, <3>4 DEF Place
      <3>6. Below(Place[1], Place[2]) /\ Below(Place[2], Place[6])
        BY DEF OrderInv, Ascending
      <3>7. Below(Place'[1], Place'[2])
        <4>1. \A x \in Place[1], y \in Place'[2] : x < y
          BY <2>3, <3>6 DEF Below
        <4>2. \A y \in Place'[2] : n < y
          BY <3>3 DEF Place, Frames
        <4> QED
          BY <3>5, <4>1, <4>2 DEF Below
      <3>8. Ascending(Place)'
        <4>1. /\ \A i \in 1 .. 5 : i # 1 => Place'[i] \subseteq Place[i]
              /\ Place'[6] \subseteq Place[6] /\ Below(Place'[1], Place'[1 + 1])
          BY <2>3, <3>7
        <4> QED
          BY <3>5, <4>1, Advance
      <3>9. \A i \in DOMAIN heard : heard[i] < n
        <4> SUFFICES ASSUME NEW i \in DOMAIN heard PROVE heard[i] < n
          OBVIOUS
        <4>1. CASE heard[i] = 0
          BY <3>1, <3>2, <4>1
        <4>2. CASE heard[i] # 0
          <5>1. heard[i] \in Place[1]
            BY <4>2 DEF Place, Frames
          <5> QED
            BY <3>1, <3>6, <5>1 DEF Below
        <4> QED
          BY <4>1, <4>2
      <3>10. n \in 1 .. (Len(given) * DeviceFrame) \div SenderFrame
        <4> DEFINE a == Capture!FramesIn(Len(given))
        <4>1. a \in Nat
          BY PathMeans, FramesGrow
        <4>2. Place[6] = {m \in Nat : m > a}
          BY DEF Place
        <4> HIDE DEF a
        <4>3. a + 1 \in Place[6]
          BY <4>1, <4>2
        <4>4. n < a + 1
          BY <3>1, <3>6, <4>3 DEF Below
        <4>5. n \in 1 .. a
          BY <3>1, <3>2, <4>1, <4>4
        <4> QED
          BY <4>5 DEF a, Capture!FramesIn
      <3>11. Stream!Hear
        <4>1. recorded' = recorded /\ given' = given /\ amiss' = amiss
          BY DEF ring
        <4> QED
          BY <3>1, <3>9, <3>10, <4>1 DEF Stream!Hear
      <3> QED
        BY <1>2, <2>1, <2>2, <3>8, <3>11 DEF OrderInv
    <2> QED
      BY <2>4, <2>5
  <1> QED
    BY <1>3, <1>4 DEF Playback!Next, Playback!Receiver

-----------------------------------------------------------------------------
(* The path implements the stream                                          *)

\* The invariant of both halves.
StreamInv == RingInv /\ OrderInv

\* Nothing has been recorded.
LEMMA StreamStarts == Init => StreamInv
  <1> SUFFICES ASSUME Init PROVE RingInv
    BY OrderStarts DEF StreamInv
  <1>1. written = 0 /\ capturing.pc = "rest"
    BY DEF Init, Capture!Init, Capture!Resting
  <1>2. Owned = {}
    BY <1>1 DEF Owned, InEnd
  <1> QED
    BY <1>2 DEF RingInv

\* Every step keeps the invariant, and is one of AudioStream's.
LEMMA StreamStep ==
  ASSUME PathInv, PathInv', StreamInv, [Next]_vars
  PROVE  StreamInv' /\ [Stream!Next]_(Stream!svars)
  <1>i. RingInv /\ OrderInv
    BY DEF StreamInv
  <1>s. ASSUME UNCHANGED ring PROVE RingInv'
    BY <1>i, <1>s, RingSame
  <1>1. CASE Capture!Next /\ UNCHANGED <<forwardVars, playbackVars, down>>
    <2>1. UNCHANGED elsewhere /\ heard' = heard
      BY <1>1 DEF elsewhere, forwardVars, playbackVars
    <2>2. OrderInv'
      BY <1>1, <1>i, <2>1, OrderCapture
    <2>3. RingInv' /\ [Stream!Next]_(Stream!svars)
      BY <1>1, <1>i, <2>1, RingStep
    <2> QED
      BY <2>2, <2>3 DEF StreamInv
  <1>2. CASE Forward!Next /\ UNCHANGED <<captureVars, playbackVars>>
    <2>1. UNCHANGED atTheEnds /\ UNCHANGED ring /\ UNCHANGED <<recorded, given, amiss, heard>>
      BY <1>2 DEF atTheEnds, ring, captureVars, playbackVars
    <2>2. OrderInv'
      BY <1>2, <1>i, <2>1, OrderForward
    <2> QED
      BY <1>s, <2>1, <2>2 DEF StreamInv, Stream!svars
  <1>3. CASE Playback!Next /\ UNCHANGED <<captureVars, forwardVars, up>>
    <2>1. /\ UNCHANGED <<recorded, ring, forwarder, up>> /\ UNCHANGED ring
          /\ UNCHANGED <<recorded, given, amiss>>
      BY <1>3 DEF ring, captureVars, forwardVars
    <2>2. OrderInv' /\ (heard' = heard \/ Stream!Hear)
      BY <1>3, <1>i, <2>1, OrderPlayback
    <2> QED
      BY <1>s, <2>1, <2>2 DEF StreamInv, Stream!Next, Stream!svars
  <1>4. CASE PacketLost
    <2>1. /\ UNCHANGED atTheEnds /\ UNCHANGED ring /\ UNCHANGED <<recorded, given, amiss, heard>>
          /\ forwarder' = forwarder
      BY <1>4 DEF PacketLost, atTheEnds, ring, captureVars, playbackVars, forwardVars
    <2>2. OrderInv'
      BY <1>4, <1>i, <2>1, OrderForward
    <2> QED
      BY <1>s, <2>1, <2>2 DEF StreamInv, Stream!svars
  <1>5. CASE UNCHANGED vars
    <2>1. /\ UNCHANGED atTheEnds /\ UNCHANGED ring /\ UNCHANGED <<recorded, given, amiss, heard>>
          /\ up' = up /\ down' = down /\ forwarder' = forwarder
      BY <1>5 DEF vars, atTheEnds, ring, captureVars, playbackVars, forwardVars
    <2>2. Outgoing' = Outgoing
      BY <2>1, EndsSame
    <2>3. Place' = Place
      BY <2>1, <2>2 DEF Place, Capture!FramesIn
    <2>4. OrderInv'
      BY <1>i, <2>1, <2>2, <2>3 DEF OrderInv
    <2> QED
      BY <1>s, <2>1, <2>4 DEF StreamInv, Stream!svars
  <1> QED
    BY <1>1, <1>2, <1>3, <1>4, <1>5 DEF Next

(***************************************************************************)
(* In ring_buffer, at the places that are not amiss, and everywhere behind *)
(* it, frames keep their order.                                            *)
(***************************************************************************)
THEOREM FramesStayInOrder == Spec => []StreamInv
  <1>1. PathInv /\ PathInv' /\ StreamInv /\ [Next]_vars => StreamInv'
    BY StreamStep
  <1> QED
    BY <1>1, StreamStarts, PathInvariant, PTL DEF Spec

(***************************************************************************)
(* For any sizes of the rings, buffers and frames the path implements      *)
(* AudioStream: what the sender is given is recorded frames in order and   *)
(* none twice, but at the places that are amiss, and what is played is     *)
(* what the sender was given, in order and nothing twice.                  *)
(***************************************************************************)
THEOREM StreamImplemented == Spec => ImplementsStream
  <1>1. Init => Stream!Init
    BY DEF Init, Capture!Init, Playback!Init, Stream!Init
  <1>2. PathInv /\ PathInv' /\ StreamInv /\ [Next]_vars => [Stream!Next]_(Stream!svars)
    BY StreamStep
  <1> QED
    BY <1>1, <1>2, FramesStayInOrder, PathInvariant, PTL DEF Spec, ImplementsStream, Stream!Spec

=============================================================================
