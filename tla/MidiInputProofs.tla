-------------------------- MODULE MidiInputProofs --------------------------
(***************************************************************************)
(* RtMidiIn for any bounds and any use of the owner's calls.  First its    *)
(* queue, for every ring size and every set of messages: the indices stay  *)
(* in the ring, and the ring under two threads is the bounded FIFO.        *)
(* QueueInv is what each thread may rely on between its steps although the *)
(* other one goes on: the slots that wait stay as they are, push() keeps   *)
(* the room it found and pop() the message it found.                       *)
(*                                                                         *)
(* Then the port: nothing is delivered out of order, into a missing        *)
(* callback, or after closePort().  InputInv says what the handler and the *)
(* owner rely on across each other's steps; OwnerInv adds the types of the *)
(* rest, and why the pipe never holds more bytes than the port was opened  *)
(* times.                                                                  *)
(***************************************************************************)
EXTENDS MidiInput, SequenceTheorems, TLAPS

\* The slot of the i-th message waiting.
Slot(i) == Wrap(front + i - 1)

WaitingAreMessages == \A i \in 1 .. Size : ring[Slot(i)] \in Message

PushKeepsItsRoom ==
  /\ pushing.pc \in {"store", "advance"} => Size < RingSize - 1
  /\ pushing.pc = "advance" => ring[back] = pushing.msg

PopKeepsItsMessage ==
  /\ popping.pc \in {"assign", "advance"} => Size > 0
  /\ popping.pc = "advance" => popping.msg = ring[front]

QueueInv ==
  QueueTypeOK /\ WaitingAreMessages /\ PushKeepsItsRoom /\ PopKeepsItsMessage

-----------------------------------------------------------------------------
(* Arithmetic of the ring                                                  *)

\* Wrap() of what is less than twice the ring.
LEMMA WrapOnce ==
  ASSUME NEW k \in 0 .. 2 * RingSize - 1
  PROVE  Wrap(k) = IF k < RingSize THEN k ELSE k - RingSize
  BY RingSizeAssumption DEF Wrap

\* A slot in the ring, counted from any index f.
LEMMA SlotFrom ==
  ASSUME NEW f \in 0 .. RingSize - 1, NEW i \in 1 .. RingSize
  PROVE  Wrap(f + i - 1) = IF f + i - 1 < RingSize THEN f + i - 1 ELSE f + i - 1 - RingSize
  BY WrapOnce, RingSizeAssumption

\* The slots of the ring from the first that waits: all in the ring, no two the
\* same, and back is the one behind the last.
LEMMA Slots ==
  ASSUME front \in 0 .. RingSize - 1, back \in 0 .. RingSize - 1
  PROVE  /\ Size \in 0 .. RingSize - 1
         /\ \A i \in 1 .. RingSize : Slot(i) \in 0 .. RingSize - 1
         /\ \A i, j \in 1 .. RingSize : Slot(i) = Slot(j) => i = j
         /\ Slot(1) = front /\ Slot(Size + 1) = back
  <1>1. \A i \in 1 .. RingSize :
          Slot(i) = IF front + i - 1 < RingSize THEN front + i - 1 ELSE front + i - 1 - RingSize
    BY SlotFrom DEF Slot
  <1> QED
    BY <1>1, RingSizeAssumption DEF Size

\* push() moves back: one more waits, in the slots that waited and back itself.
LEMMA BackMoves ==
  ASSUME front \in 0 .. RingSize - 1, back \in 0 .. RingSize - 1,
         Size < RingSize - 1, back' = Wrap(back + 1), front' = front
  PROVE  /\ back' \in 0 .. RingSize - 1
         /\ Size' = Size + 1
         /\ \A i \in 1 .. RingSize : Slot(i)' = Slot(i)
  <1>1. back' = IF back + 1 < RingSize THEN back + 1 ELSE 0
    BY WrapOnce, RingSizeAssumption
  <1>2. back' \in 0 .. RingSize - 1 /\ Size' = Size + 1
    BY <1>1, RingSizeAssumption DEF Size
  <1>3. \A i \in 1 .. RingSize : Slot(i)' = Slot(i)
    BY DEF Slot
  <1> QED
    BY <1>2, <1>3

\* pop() moves front: one fewer waits, and each is one place further ahead.
LEMMA FrontMoves ==
  ASSUME front \in 0 .. RingSize - 1, back \in 0 .. RingSize - 1,
         Size > 0, front' = Wrap(front + 1), back' = back
  PROVE  /\ front' \in 0 .. RingSize - 1
         /\ Size' = Size - 1
         /\ \A i \in 1 .. RingSize - 1 : Slot(i)' = Slot(i + 1)
  <1>1. front' = IF front + 1 < RingSize THEN front + 1 ELSE 0
    BY WrapOnce, RingSizeAssumption
  <1>2. front' \in 0 .. RingSize - 1 /\ Size' = Size - 1
    BY <1>1, RingSizeAssumption DEF Size
  <1>3. ASSUME NEW i \in 1 .. RingSize - 1
        PROVE  Slot(i)' = Slot(i + 1)
    <2>1. Slot(i)' = Wrap(front' + i - 1) /\ Slot(i + 1) = Wrap(front + (i + 1) - 1)
      BY DEF Slot
    <2>2. Wrap(front' + i - 1) = IF front' + i - 1 < RingSize THEN front' + i - 1
                                ELSE front' + i - 1 - RingSize
      BY <1>2, SlotFrom, RingSizeAssumption
    <2>3. front + (i + 1) - 1 = front + i /\ front + i \in 0 .. 2 * RingSize - 1
      BY RingSizeAssumption
    <2>4. Wrap(front + i) = IF front + i < RingSize THEN front + i ELSE (front + i) - RingSize
      BY <2>3, WrapOnce
    <2>5. Slot(i + 1) = Wrap(front + i)
      BY <2>1, <2>3
    <2> QED
      BY ONLY <1>1, <2>1, <2>2, <2>4, <2>5, RingSizeAssumption, front \in 0 .. RingSize - 1,
              i \in 1 .. RingSize - 1
  <1> QED
    BY <1>2, <1>3

-----------------------------------------------------------------------------
(* The invariant                                                           *)

LEMMA QueueStarts == QueueInit => QueueInv
  BY RingSizeAssumption, MessageAssumption
  DEF QueueInit, QueueInv, QueueTypeOK, WaitingAreMessages, PushKeepsItsRoom,
      PopKeepsItsMessage, Size

LEMMA TypeStep == QueueInv /\ [QueueNext]_queueVars => QueueTypeOK'
  <1> SUFFICES ASSUME QueueInv, [QueueNext]_queueVars PROVE QueueTypeOK'
    OBVIOUS
  <1> USE RingSizeAssumption, MessageAssumption DEF QueueInv, QueueTypeOK
  <1>1. ASSUME NEW m \in Message, PushCalled(m) PROVE QueueTypeOK'
    BY <1>1 DEF PushCalled
  <1>2. CASE PushSizes
    BY <1>2 DEF PushSizes
  <1>3. CASE PushStores
    BY <1>3 DEF PushStores
  <1>4. CASE PushAdvances
    BY <1>4, BackMoves DEF PushAdvances, PushKeepsItsRoom
  <1>5. CASE PopFindsNone
    BY <1>5 DEF PopFindsNone
  <1>6. CASE PopFindsSome
    BY <1>6 DEF PopFindsSome
  <1>7. CASE PopAssigns
    BY <1>7 DEF PopAssigns
  <1>8. CASE PopAdvances
    BY <1>8, FrontMoves DEF PopAdvances, PopKeepsItsMessage
  <1>9. CASE UNCHANGED queueVars
    BY <1>9 DEF queueVars
  <1> QED
    BY <1>1, <1>2, <1>3, <1>4, <1>5, <1>6, <1>7, <1>8, <1>9
    DEF QueueNext, PushStep, PopStep

\* Where a step leaves the indices and the ring, what waits stays.
LEMMA NothingMoves ==
  ASSUME UNCHANGED <<front, back>>
  PROVE  Size' = Size /\ \A i : Slot(i)' = Slot(i)
  BY DEF Size, Slot

\* push() writes a slot in which nothing waits.
LEMMA StoreIsBehind ==
  ASSUME QueueInv, PushStores
  PROVE  /\ \A i \in 1 .. Size : ring'[Slot(i)'] = ring[Slot(i)]
         /\ ring'[back] = pushing.msg
         /\ Size > 0 => ring'[front] = ring[front]
  <1> USE RingSizeAssumption DEF QueueInv
  <1>1. front \in 0 .. RingSize - 1 /\ back \in 0 .. RingSize - 1 /\ Size \in 0 .. RingSize - 1
    BY Slots DEF QueueTypeOK
  <1>2. ring' = [ring EXCEPT ![back] = pushing.msg] /\ UNCHANGED <<front, back>>
    BY DEF PushStores
  <1>3. DOMAIN ring = 0 .. RingSize - 1
    BY DEF QueueTypeOK
  <1>4. ASSUME NEW i \in 1 .. Size
        PROVE  ring'[Slot(i)] = ring[Slot(i)]
    <2>1. i \in 1 .. RingSize /\ Size + 1 \in 1 .. RingSize /\ i # Size + 1
      BY <1>1
    <2>2. Slot(i) \in 0 .. RingSize - 1 /\ Slot(i) # back
      BY <1>1, <2>1, Slots
    <2> QED
      BY <1>2, <1>3, <2>2
  <1>5. Size > 0 => ring'[front] = ring[front]
    BY <1>1, <1>4, Slots
  <1> QED
    BY <1>1, <1>2, <1>3, <1>4, <1>5, NothingMoves

LEMMA WaitingStep == QueueInv /\ [QueueNext]_queueVars => WaitingAreMessages'
  <1> SUFFICES ASSUME QueueInv, [QueueNext]_queueVars PROVE WaitingAreMessages'
    OBVIOUS
  <1> USE RingSizeAssumption DEF QueueInv
  <1>1. front \in 0 .. RingSize - 1 /\ back \in 0 .. RingSize - 1 /\ Size \in 0 .. RingSize - 1
    BY Slots DEF QueueTypeOK
  <1>2. CASE UNCHANGED <<front, back, ring>>
    BY <1>2, NothingMoves DEF WaitingAreMessages
  <1>3. CASE PushStores
    <2>1. UNCHANGED <<front, back>>
      BY <1>3 DEF PushStores
    <2> QED
      BY <1>3, <2>1, StoreIsBehind, NothingMoves DEF WaitingAreMessages
  <1>4. CASE PushAdvances
    <2>1. /\ Size < RingSize - 1 /\ ring[back] \in Message
          /\ back' = Wrap(back + 1) /\ front' = front /\ ring' = ring
      BY <1>4, MessageAssumption DEF PushAdvances, PushKeepsItsRoom, QueueTypeOK
    <2>2. Size' = Size + 1 /\ \A i \in 1 .. RingSize : Slot(i)' = Slot(i)
      BY <1>1, <2>1, BackMoves
    <2>3. ring[Slot(Size + 1)] \in Message
      BY <1>1, <2>1, Slots
    <2>4. ASSUME NEW i \in 1 .. Size + 1
          PROVE  ring'[Slot(i)'] \in Message
      <3>1. i \in 1 .. RingSize /\ (i \in 1 .. Size \/ i = Size + 1)
        BY <1>1
      <3>2. ring'[Slot(i)'] = ring[Slot(i)]
        BY <2>1, <2>2, <3>1
      <3> QED
        BY <2>3, <3>1, <3>2 DEF WaitingAreMessages
    <2> QED
      BY <2>2, <2>4 DEF WaitingAreMessages
  <1>5. CASE PopAdvances
    <2>1. Size > 0 /\ front' = Wrap(front + 1) /\ back' = back /\ ring' = ring
      BY <1>5 DEF PopAdvances, PopKeepsItsMessage
    <2>2. Size' = Size - 1 /\ \A i \in 1 .. RingSize - 1 : Slot(i)' = Slot(i + 1)
      BY <1>1, <2>1, FrontMoves
    <2>3. ASSUME NEW i \in 1 .. Size - 1
          PROVE  ring'[Slot(i)'] \in Message
      <3>1. i \in 1 .. RingSize - 1 /\ i + 1 \in 1 .. Size
        BY <1>1
      <3> QED
        BY <2>1, <2>2, <3>1 DEF WaitingAreMessages
    <2> QED
      BY <2>2, <2>3 DEF WaitingAreMessages
  <1> QED
    BY <1>2, <1>3, <1>4, <1>5
    DEF QueueNext, PushStep, PopStep, PushCalled, PushSizes, PopFindsNone, PopFindsSome,
        PopAssigns, queueVars

LEMMA PushStepKeeps == QueueInv /\ [QueueNext]_queueVars => PushKeepsItsRoom'
  <1> SUFFICES ASSUME QueueInv, [QueueNext]_queueVars PROVE PushKeepsItsRoom'
    OBVIOUS
  <1> USE RingSizeAssumption DEF QueueInv
  <1>1. front \in 0 .. RingSize - 1 /\ back \in 0 .. RingSize - 1 /\ Size \in 0 .. RingSize - 1
    BY Slots DEF QueueTypeOK
  <1>2. CASE UNCHANGED <<front, back, ring, pushing>>
    BY <1>2, NothingMoves DEF PushKeepsItsRoom
  <1>3. ASSUME NEW m \in Message, PushCalled(m) PROVE PushKeepsItsRoom'
    BY <1>3 DEF PushCalled, PushKeepsItsRoom
  <1>4. CASE PushSizes
    BY <1>4, NothingMoves DEF PushSizes, PushKeepsItsRoom, QueueTypeOK
  <1>5. CASE PushStores
    <2>1. UNCHANGED <<front, back>> /\ Size < RingSize - 1 /\ pushing'.msg = pushing.msg
      BY <1>5 DEF PushStores, PushKeepsItsRoom, QueueTypeOK
    <2> QED
      BY <1>5, <2>1, StoreIsBehind, NothingMoves DEF PushKeepsItsRoom
  <1>6. CASE PushAdvances
    BY <1>6 DEF PushAdvances, PushKeepsItsRoom
  <1>7. CASE PopAdvances
    <2>1. Size > 0 /\ front' = Wrap(front + 1) /\ UNCHANGED <<back, ring, pushing>>
      BY <1>7 DEF PopAdvances, PopKeepsItsMessage
    <2>2. Size' = Size - 1
      BY <1>1, <2>1, FrontMoves
    <2> QED
      BY <1>1, <2>1, <2>2 DEF PushKeepsItsRoom
  <1> QED
    BY <1>2, <1>3, <1>4, <1>5, <1>6, <1>7
    DEF QueueNext, PushStep, PopStep, PopFindsNone, PopFindsSome, PopAssigns, queueVars

LEMMA PopStepKeeps == QueueInv /\ [QueueNext]_queueVars => PopKeepsItsMessage'
  <1> SUFFICES ASSUME QueueInv, [QueueNext]_queueVars PROVE PopKeepsItsMessage'
    OBVIOUS
  <1> USE RingSizeAssumption DEF QueueInv
  <1>1. front \in 0 .. RingSize - 1 /\ back \in 0 .. RingSize - 1 /\ Size \in 0 .. RingSize - 1
    BY Slots DEF QueueTypeOK
  <1>2. CASE UNCHANGED <<front, back, ring, popping>>
    BY <1>2, NothingMoves DEF PopKeepsItsMessage
  <1>3. CASE PushStores
    <2>1. UNCHANGED <<front, back, popping>>
      BY <1>3 DEF PushStores
    <2> QED
      BY <1>3, <2>1, StoreIsBehind, NothingMoves DEF PopKeepsItsMessage
  <1>4. CASE PushAdvances
    <2>1. /\ Size < RingSize - 1 /\ back' = Wrap(back + 1)
          /\ UNCHANGED <<front, ring, popping>>
      BY <1>4 DEF PushAdvances, PushKeepsItsRoom
    <2>2. Size' = Size + 1
      BY <1>1, <2>1, BackMoves
    <2> QED
      BY <1>1, <2>1, <2>2 DEF PopKeepsItsMessage
  <1>5. CASE PopFindsSome
    BY <1>1, <1>5, NothingMoves DEF PopFindsSome, PopKeepsItsMessage, QueueTypeOK
  <1>6. CASE PopAssigns
    BY <1>6, NothingMoves DEF PopAssigns, PopKeepsItsMessage
  <1>7. CASE PopAdvances
    BY <1>7 DEF PopAdvances, PopKeepsItsMessage
  <1> QED
    BY <1>2, <1>3, <1>4, <1>5, <1>6, <1>7
    DEF QueueNext, PushStep, PopStep, PushCalled, PushSizes, PopFindsNone, queueVars

(***************************************************************************)
(* Whatever the two threads do, the indices stay within the ring, and what *)
(* each has found out in a call holds until the call ends.                 *)
(***************************************************************************)
THEOREM QueueInvariant == QueueSpec => []QueueInv
  <1>1. QueueInv /\ [QueueNext]_queueVars => QueueInv'
    BY TypeStep, WaitingStep, PushStepKeeps, PopStepKeeps DEF QueueInv
  <1> QED
    BY <1>1, QueueStarts, PTL DEF QueueSpec

-----------------------------------------------------------------------------
(* The ring is a FIFO                                                      *)

Waiting == [i \in 1 .. Size |-> ring[Wrap(front + i - 1)]]

LEMMA AppendIs ==
  ASSUME NEW S, NEW s \in Seq(S), NEW t \in Seq(S), NEW e \in S,
         Len(t) = Len(s) + 1, t[Len(s) + 1] = e, \A i \in 1 .. Len(s) : t[i] = s[i]
  PROVE  t = Append(s, e)
  <1>1. /\ Append(s, e) \in Seq(S) /\ Len(Append(s, e)) = Len(s) + 1 /\ Len(s) \in Nat
        /\ Append(s, e)[Len(s) + 1] = e
        /\ \A i \in 1 .. Len(s) : Append(s, e)[i] = s[i]
    BY AppendProperties, LenProperties
  <1>2. \A i \in 1 .. Len(t) : t[i] = Append(s, e)[i]
    BY <1>1
  <1> QED
    BY <1>1, <1>2, SeqEqual

LEMMA TailIs ==
  ASSUME NEW S, NEW s \in Seq(S), NEW t \in Seq(S),
         Len(s) > 0, Len(t) = Len(s) - 1, \A i \in 1 .. Len(t) : t[i] = s[i + 1]
  PROVE  t = Tail(s)
  <1>1. s # <<>>
    BY EmptySeq
  <1> QED
    BY <1>1, HeadTailProperties, SeqEqual

WaitingFacts ==
  /\ Waiting \in Seq(Message) /\ Len(Waiting) = Size /\ Size \in 0 .. RingSize - 1
  /\ \A i \in 1 .. Size : Waiting[i] = ring[Slot(i)]

LEMMA WaitingIsSeq == QueueInv => WaitingFacts
  <1> SUFFICES ASSUME QueueInv PROVE WaitingFacts
    OBVIOUS
  <1>1. Size \in Nat /\ Size \in 0 .. RingSize - 1
    BY Slots, RingSizeAssumption DEF QueueInv, QueueTypeOK
  <1>2. \A i \in 1 .. Size : Waiting[i] \in Message /\ Waiting[i] = ring[Slot(i)]
    BY DEF QueueInv, WaitingAreMessages, Waiting, Slot
  <1> QED
    BY <1>1, <1>2 DEF Waiting, WaitingFacts

LEMMA WaitingIsSeqNext == QueueInv' => WaitingFacts'
  BY WaitingIsSeq, PTL

\* What waits is the same when no index and no slot in which something waits changes.
LEMMA WaitingStays ==
  ASSUME WaitingFacts, WaitingFacts', UNCHANGED <<front, back>>,
         \A i \in 1 .. Size : ring'[Slot(i)'] = ring[Slot(i)]
  PROVE  Waiting' = Waiting
  <1>1. Size' = Size
    BY NothingMoves
  <1>2. \A i \in 1 .. Len(Waiting) : Waiting'[i] = Waiting[i]
    BY <1>1 DEF WaitingFacts
  <1> QED
    BY <1>1, <1>2, SeqEqual DEF WaitingFacts

\* A step of push() or pop() is a step of the FIFO or none.
LEMMA FifoStep ==
  QueueInv /\ QueueInv' /\ [QueueNext]_queueVars => [Fifo!Next]_(Fifo!fvars)
  <1> SUFFICES ASSUME QueueInv, QueueInv', [QueueNext]_queueVars
               PROVE  [Fifo!Next]_(Fifo!fvars)
    OBVIOUS
  <1>1. WaitingFacts /\ WaitingFacts'
    BY WaitingIsSeq, WaitingIsSeqNext
  <1>2. front \in 0 .. RingSize - 1 /\ back \in 0 .. RingSize - 1
    BY DEF QueueInv, QueueTypeOK
  <1>3. UNCHANGED <<front, back, ring>> => Waiting' = Waiting
    BY <1>1, WaitingStays, NothingMoves
  <1>4. ASSUME NEW m \in Message, PushCalled(m) PROVE Fifo!Offer
    <2>1. pushing.msg = NoMessage /\ pushing'.msg = m /\ UNCHANGED <<front, back, ring, fetched>>
      BY <1>4, MessageAssumption DEF PushCalled, QueueInv, QueueTypeOK
    <2> QED
      BY <1>3, <2>1 DEF Fifo!Offer, Waiting
  <1>5. CASE PushSizes
    <2>1. pushing.msg # NoMessage /\ UNCHANGED <<front, back, ring, fetched>>
      BY <1>5, MessageAssumption DEF PushSizes, QueueInv, QueueTypeOK
    <2>2. CASE Size < RingSize - 1
      <3>1. pushing'.msg = pushing.msg
        BY <1>5, <2>2 DEF PushSizes, QueueInv, QueueTypeOK
      <3> QED
        BY <1>3, <2>1, <3>1 DEF Fifo!fvars, Waiting
    <2>3. CASE ~(Size < RingSize - 1)
      <3>1. pushing'.msg = NoMessage
        BY <1>5, <2>3 DEF PushSizes
      <3>2. Len(Waiting) = RingSize - 1
        BY <1>1, <2>3, RingSizeAssumption DEF WaitingFacts
      <3>3. Fifo!Refuse
        BY <1>3, <2>1, <3>1, <3>2 DEF Fifo!Refuse, Waiting
      <3> QED
        BY <3>3 DEF Fifo!Next
    <2> QED
      BY <2>2, <2>3
  <1>6. CASE PushStores
    <2>1. pushing'.msg = pushing.msg /\ UNCHANGED <<front, back, fetched>>
      BY <1>6 DEF PushStores, QueueInv, QueueTypeOK
    <2>2. Waiting' = Waiting
      BY <1>1, <1>6, <2>1, StoreIsBehind, WaitingStays
    <2> QED
      BY <2>1, <2>2 DEF Fifo!fvars, Waiting
  <1>7. CASE PushAdvances
    <2>1. /\ pushing.msg \in Message /\ pushing.msg # NoMessage /\ pushing'.msg = NoMessage
          /\ Size < RingSize - 1 /\ ring[back] = pushing.msg
          /\ back' = Wrap(back + 1) /\ UNCHANGED <<front, ring, fetched>>
      BY <1>7, MessageAssumption DEF PushAdvances, QueueInv, QueueTypeOK, PushKeepsItsRoom
    <2>2. Size' = Size + 1 /\ \A i \in 1 .. RingSize : Slot(i)' = Slot(i)
      BY <1>2, <2>1, BackMoves
    <2>3. Len(Waiting') = Len(Waiting) + 1 /\ Len(Waiting) < RingSize - 1
      BY <1>1, <2>1, <2>2 DEF WaitingFacts
    <2>4. Waiting'[Len(Waiting) + 1] = pushing.msg
      BY <1>1, <1>2, <2>1, <2>2, Slots, RingSizeAssumption DEF WaitingFacts
    <2>5. \A i \in 1 .. Len(Waiting) : Waiting'[i] = Waiting[i]
      BY <1>1, <2>1, <2>2, RingSizeAssumption DEF WaitingFacts
    <2>6. Waiting' = Append(Waiting, pushing.msg)
      BY <1>1, <2>1, <2>3, <2>4, <2>5, AppendIs DEF WaitingFacts
    <2>7. Fifo!Accept
      BY <2>1, <2>3, <2>6 DEF Fifo!Accept, Waiting
    <2> QED
      BY <2>7 DEF Fifo!Next
  <1>8. CASE PopFindsNone
    <2>1. fetched' = NoMessage /\ Size = 0 /\ UNCHANGED <<front, back, ring, pushing>>
      BY <1>8 DEF PopFindsNone
    <2>2. Waiting = <<>>
      BY <1>1, <2>1, EmptySeq DEF WaitingFacts
    <2>3. Fifo!TakeNothing
      BY <1>3, <2>1, <2>2 DEF Fifo!TakeNothing, Waiting
    <2> QED
      BY <2>3 DEF Fifo!Next
  <1>9. CASE PopFindsSome \/ PopAssigns
    <2>1. UNCHANGED <<front, back, ring, pushing, fetched>>
      BY <1>9 DEF PopFindsSome, PopAssigns
    <2> QED
      BY <1>3, <2>1 DEF Fifo!fvars, Waiting
  <1>10. CASE PopAdvances
    <2>1. /\ Size > 0 /\ popping.msg = ring[front] /\ fetched' = popping.msg
          /\ front' = Wrap(front + 1) /\ UNCHANGED <<back, ring, pushing>>
      BY <1>10 DEF PopAdvances, QueueInv, PopKeepsItsMessage
    <2>2. Size' = Size - 1 /\ \A i \in 1 .. RingSize - 1 : Slot(i)' = Slot(i + 1)
      BY <1>2, <2>1, FrontMoves
    <2>3. Len(Waiting) > 0 /\ Len(Waiting') = Len(Waiting) - 1
      BY <1>1, <2>1, <2>2 DEF WaitingFacts
    <2>4. ASSUME NEW i \in 1 .. Len(Waiting')
          PROVE  Waiting'[i] = Waiting[i + 1]
      <3>1. i \in 1 .. Size' /\ i + 1 \in 1 .. Size /\ i \in 1 .. RingSize - 1
        BY <1>1, <2>2, RingSizeAssumption DEF WaitingFacts
      <3>2. Waiting'[i] = ring'[Slot(i)'] /\ Waiting[i + 1] = ring[Slot(i + 1)]
        BY <1>1, <3>1 DEF WaitingFacts
      <3> QED
        BY <2>1, <2>2, <3>1, <3>2
    <2>5. Waiting' = Tail(Waiting) /\ Waiting # <<>>
      BY <1>1, <2>3, <2>4, TailIs, EmptySeq DEF WaitingFacts
    <2>6. Head(Waiting) = ring[front]
      BY <1>1, <1>2, <2>1, <2>5, Slots, RingSizeAssumption DEF WaitingFacts
    <2>7. Fifo!Take
      BY <2>1, <2>5, <2>6 DEF Fifo!Take, Waiting
    <2> QED
      BY <2>7 DEF Fifo!Next
  <1>11. CASE UNCHANGED queueVars
    BY <1>3, <1>11 DEF queueVars, Fifo!fvars, Waiting
  <1> QED
    BY <1>4, <1>5, <1>6, <1>7, <1>8, <1>9, <1>10, <1>11
    DEF QueueNext, PushStep, PopStep, Fifo!Next

(***************************************************************************)
(* However push() and pop() interleave, the ring, of any size, is the      *)
(* bounded FIFO with one slot less.                                        *)
(***************************************************************************)
THEOREM QueueImplementsFifo == QueueSpec => ImplementsFifo
  <1>1. QueueInit => Fifo!Init
    <2> SUFFICES ASSUME QueueInit PROVE Fifo!Init
      OBVIOUS
    <2>1. Size = 0
      BY DEF QueueInit, Size
    <2>2. Waiting = <<>>
      BY <2>1, QueueStarts, WaitingIsSeq, EmptySeq DEF WaitingFacts
    <2> QED
      BY <2>2 DEF QueueInit, Fifo!Init, Waiting
  <1> QED
    BY <1>1, FifoStep, QueueInvariant, PTL DEF QueueSpec, ImplementsFifo, Fifo!Spec

-----------------------------------------------------------------------------
(* The port: what the handler and the owner rely on                        *)

HandlerPc == {"none", "starting", "test", "wait", "deliver", "call", "pushing",
              "ending", "done"}

\* The types of what the handler works on.
HandlerTypeOK ==
  /\ handler \in [pc : HandlerPc, bytes : Seq(Event), continueSysex : BOOLEAN]
  /\ arrived \in 0 .. MaxEvents /\ newest \in 0 .. MaxEvents

\* The function is stored before the flag is set, and never taken away.
FlagMeansCallback ==
  /\ usingCallback \/ owner = "setting" => userCallback
  /\ handler.pc = "call" => userCallback

\* Only in closePort() may a handler that was told to stop still be at work.
StoppedUnlessClosing ==
  /\ ~doInput /\ owner \notin {"trigger", "joining"} => handler.pc \in {"none", "done"}
  /\ thread = "dummy" => handler.pc \in {"none", "done"}

HandedOver == handler.pc \in {"deliver", "call", "pushing"}

\* What has been gathered is younger than all that was delivered, and in order.
Gathered ==
  /\ newest <= arrived
  /\ \A i \in 1 .. Len(handler.bytes) : handler.bytes[i].n <= arrived
  /\ \A i \in 2 .. Len(handler.bytes) : handler.bytes[i - 1].n < handler.bytes[i].n
  /\ (handler.continueSysex \/ HandedOver) /\ handler.bytes # <<>> =>
        newest < handler.bytes[1].n
  /\ HandedOver => handler.bytes # <<>> /\ ~handler.continueSysex

InputInv == HandlerTypeOK /\ FlagMeansCallback /\ StoppedUnlessClosing /\ Gathered

\* The types of what the owner works on.
OwnerTypeOK ==
  /\ ignored \in SUBSET AllTypes
  /\ thread \in {"dummy", "handler"}
  /\ trigger \in Nat /\ opens \in 0 .. MaxOpens
  /\ owner \in {"idle", "setting", "popping", "trigger", "joining"}

FlagsAreBoolean ==
  /\ doInput \in BOOLEAN /\ underway \in BOOLEAN
  /\ userCallback \in BOOLEAN /\ usingCallback \in BOOLEAN

\* Each opening is closed once at most, and writes one byte into the pipe then.
OwnerInv ==
  /\ OwnerTypeOK
  /\ owner = "trigger" => ~doInput
  /\ trigger <= opens
  /\ doInput \/ owner = "trigger" => trigger < opens

-----------------------------------------------------------------------------
\* HandlerGoes() changes pc and nothing else of the handler.
LEMMA Goes ==
  ASSUME HandlerTypeOK, NEW pc \in HandlerPc, HandlerGoes(pc)
  PROVE  /\ handler' \in [pc : HandlerPc, bytes : Seq(Event), continueSysex : BOOLEAN]
         /\ handler'.pc = pc
         /\ handler'.bytes = handler.bytes
         /\ handler'.continueSysex = handler.continueSysex
  BY DEF HandlerTypeOK, HandlerGoes

\* An event is put behind the chunks gathered so far, or left out.
LEMMA AppendEvent ==
  ASSUME NEW b \in Seq(Event), NEW e \in Event
  PROVE  /\ Append(b, e) \in Seq(Event) /\ Append(b, e) # <<>>
         /\ Len(Append(b, e)) = Len(b) + 1 /\ Len(b) \in Nat
         /\ \A i \in 1 .. Len(b) : Append(b, e)[i] = b[i]
         /\ Append(b, e)[Len(b) + 1] = e
  BY AppendProperties, LenProperties

\* The youngest event of a message.
LEMMA LatestOf ==
  ASSUME NEW b \in Seq(Event), b # <<>>
  PROVE  Latest(b) \in 1 .. MaxEvents /\ Len(b) \in 1 .. Len(b) /\ Len(b) \in Nat
  <1>1. Len(b) \in 1 .. Len(b) /\ Len(b) \in Nat
    BY EmptySeq, LenProperties
  <1>2. b[Len(b)] \in Event
    BY <1>1, ElementOfSeq
  <1> QED
    BY <1>1, <1>2 DEF Latest, Event

\* What HandlerHears() makes of the handler.
Kept == IF handler.continueSysex THEN handler.bytes ELSE <<>>
Heard(k) == IF Decoded(k) THEN Append(Kept, [n |-> arrived', kind |-> k]) ELSE Kept
More(k) == IF Decoded(k) THEN k = "sysexBegin" ELSE handler.continueSysex

LEMMA Hears ==
  ASSUME HandlerTypeOK, NEW k \in Kind, HandlerHears(k)
  PROVE  /\ arrived' = arrived + 1 /\ arrived' \in 1 .. MaxEvents
         /\ Kept \in Seq(Event) /\ [n |-> arrived', kind |-> k] \in Event
         /\ handler' \in [pc : {"test", "deliver"}, bytes : Seq(Event), continueSysex : BOOLEAN]
         /\ handler'.pc = (IF Heard(k) = <<>> \/ More(k) THEN "test" ELSE "deliver")
         /\ handler'.bytes = Heard(k)
         /\ handler'.continueSysex = More(k)
         /\ UNCHANGED <<queueVars, handlerFrame, thread, newest>>
  <1> DEFINE pc == IF Heard(k) = <<>> \/ More(k) THEN "test" ELSE "deliver"
  <1>1. /\ arrived' = arrived + 1 /\ arrived' \in 1 .. MaxEvents
        /\ UNCHANGED <<queueVars, handlerFrame, thread, newest>>
    BY BoundsAssumption DEF HandlerHears, HandlerTypeOK
  <1>2. [n |-> arrived', kind |-> k] \in Event
    BY <1>1 DEF Event
  <1>3. Kept \in Seq(Event)
    BY EmptySeq DEF HandlerTypeOK, Kept
  <1>4. Heard(k) \in Seq(Event)
    BY <1>2, <1>3, AppendEvent DEF Heard
  <1>5. handler' = [pc |-> pc, bytes |-> Heard(k), continueSysex |-> More(k)]
    BY DEF HandlerHears, Heard, Kept, More
  <1>6. More(k) \in BOOLEAN
    BY DEF More, HandlerTypeOK
  <1>7. pc \in {"test", "deliver"}
    OBVIOUS
  <1>8. handler'.pc = pc /\ handler'.bytes = Heard(k) /\ handler'.continueSysex = More(k)
    BY ONLY <1>5
  <1> HIDE DEF pc
  <1>9. handler' \in [pc : {"test", "deliver"}, bytes : Seq(Event), continueSysex : BOOLEAN]
    BY ONLY <1>4, <1>5, <1>6, <1>7
  <1> QED
    BY <1>1, <1>2, <1>3, <1>8, <1>9 DEF pc

LEMMA InputStarts == Init => InputInv
  BY BoundsAssumption, EmptySeq
  DEF Init, InputInv, HandlerTypeOK, HandlerPc, FlagMeansCallback, StoppedUnlessClosing,
      Gathered, HandedOver

\* The owner's calls leave the handler alone, but for openVirtualPort().
LEMMA OwnerFrame ==
  ASSUME \/ \E s \in IgnoreSets : IgnoreTypes(s)
         \/ SetCallback \/ GetMessage \/ ClosePort \/ OwnerStep
  PROVE  UNCHANGED <<handler, arrived, newest, underway>>
  BY DEF IgnoreTypes, SetCallback, GetMessage, ClosePort, OwnerStep, CallbackSet,
         GettingMessage, CloseTriggers, CloseJoins, ownerFrame, envVars

LEMMA HandlerTypeStep == InputInv /\ [Next]_vars => HandlerTypeOK'
  <1> SUFFICES ASSUME InputInv, [Next]_vars PROVE HandlerTypeOK'
    OBVIOUS
  <1> USE BoundsAssumption DEF InputInv
  <1>1. CASE HandlerFails \/ HandlerStarts \/ HandlerTests \/ HandlerWakes \/ HandlerEnds
             \/ HandlerChooses
    <2>1. UNCHANGED <<arrived, newest>> /\ \E pc \in HandlerPc : HandlerGoes(pc)
      BY <1>1 DEF HandlerFails, HandlerStarts, HandlerTests, HandlerWakes, HandlerEnds,
                  HandlerChooses, HandlerPc, envVars
    <2> QED
      BY <2>1, Goes DEF HandlerTypeOK
  <1>2. CASE HandlerOverrun
    <2>1. arrived' = arrived + 1 /\ arrived < MaxEvents /\ newest' = newest /\ HandlerGoes("test")
      BY <1>2 DEF HandlerOverrun
    <2> QED
      BY <2>1, Goes DEF HandlerTypeOK, HandlerPc
  <1>3. ASSUME NEW k \in Kind, HandlerHears(k) PROVE HandlerTypeOK'
    <2>1. /\ handler' \in [pc : {"test", "deliver"}, bytes : Seq(Event), continueSysex : BOOLEAN]
          /\ arrived' \in 1 .. MaxEvents /\ newest' = newest
      BY <1>3, Hears
    <2>2. handler' \in [pc : HandlerPc, bytes : Seq(Event), continueSysex : BOOLEAN]
      BY <2>1 DEF HandlerPc
    <2>3. arrived' \in 0 .. MaxEvents
      BY <2>1
    <2> QED
      BY <2>1, <2>2, <2>3 DEF HandlerTypeOK
  <1>4. CASE HandlerCalls \/ HandlerPushes
    <2>1. handler.bytes \in Seq(Event) /\ handler.bytes # <<>>
      BY <1>4 DEF HandlerCalls, HandlerPushes, HandlerAt, Gathered, HandedOver, HandlerTypeOK
    <2>2. Latest(handler.bytes) \in 0 .. MaxEvents
      BY <2>1, LatestOf
    <2>3. /\ arrived' = arrived /\ newest' \in {newest, Latest(handler.bytes)}
          /\ HandlerGoes("test") \/ handler' = handler
      BY <1>4 DEF HandlerCalls, HandlerPushes, envVars
    <2>4. handler' \in [pc : HandlerPc, bytes : Seq(Event), continueSysex : BOOLEAN]
      BY <2>3, Goes DEF HandlerTypeOK, HandlerPc
    <2> QED
      BY <2>2, <2>3, <2>4 DEF HandlerTypeOK
  <1>5. CASE OpenVirtualPort
    BY <1>5, EmptySeq DEF OpenVirtualPort, HandlerTypeOK, HandlerPc
  <1>6. CASE UNCHANGED <<handler, arrived, newest>>
    BY <1>6 DEF HandlerTypeOK
  <1> QED
    BY <1>1, <1>2, <1>3, <1>4, <1>5, <1>6, OwnerFrame
    DEF Next, HandlerStep, vars, inputVars, envVars

LEMMA CallbackStep == InputInv /\ [Next]_vars => FlagMeansCallback'
  <1> SUFFICES ASSUME InputInv, [Next]_vars PROVE FlagMeansCallback'
    OBVIOUS
  <1> USE DEF InputInv, FlagMeansCallback
  <1>1. CASE HandlerFails \/ HandlerStarts \/ HandlerTests \/ HandlerWakes \/ HandlerEnds
             \/ HandlerOverrun
    <2>1. /\ UNCHANGED <<userCallback, usingCallback, owner>>
          /\ \E pc \in HandlerPc \ {"call"} : HandlerGoes(pc)
      BY <1>1 DEF HandlerFails, HandlerStarts, HandlerTests, HandlerWakes, HandlerEnds,
                  HandlerOverrun, HandlerPc, handlerFrame, dataVars
    <2> QED
      BY <2>1, Goes
  <1>2. CASE HandlerChooses
    <2>1. /\ UNCHANGED <<userCallback, usingCallback, owner>>
          /\ HandlerGoes("pushing") \/ (usingCallback /\ HandlerGoes("call"))
      BY <1>2 DEF HandlerChooses, handlerFrame, dataVars
    <2> QED
      BY <2>1, Goes DEF HandlerPc
  <1>3. ASSUME NEW k \in Kind, HandlerHears(k) PROVE FlagMeansCallback'
    <2>1. /\ handler' \in [pc : {"test", "deliver"}, bytes : Seq(Event), continueSysex : BOOLEAN]
          /\ UNCHANGED <<userCallback, usingCallback, owner>>
      BY <1>3, Hears DEF handlerFrame, dataVars
    <2> QED
      BY <2>1
  <1>4. CASE HandlerCalls \/ HandlerPushes
    <2>1. /\ UNCHANGED <<userCallback, usingCallback, owner>>
          /\ HandlerGoes("test") \/ handler' = handler
      BY <1>4 DEF HandlerCalls, HandlerPushes, handlerFrame, dataVars
    <2> QED
      BY <2>1, Goes DEF HandlerPc
  <1>5. CASE OpenVirtualPort
    BY <1>5 DEF OpenVirtualPort
  <1>6. CASE \/ \E s \in IgnoreSets : IgnoreTypes(s)
             \/ SetCallback \/ GetMessage \/ ClosePort \/ OwnerStep
    BY <1>6 DEF IgnoreTypes, SetCallback, GetMessage, ClosePort, OwnerStep, CallbackSet,
                GettingMessage, CloseTriggers, CloseJoins, ownerFrame, dataVars, OwnerGoes
  <1>7. CASE UNCHANGED vars
    BY <1>7 DEF vars, inputVars, dataVars
  <1> QED
    BY <1>1, <1>2, <1>3, <1>4, <1>5, <1>6, <1>7 DEF Next, HandlerStep

LEMMA StoppedStep == InputInv /\ [Next]_vars => StoppedUnlessClosing'
  <1> SUFFICES ASSUME InputInv, [Next]_vars PROVE StoppedUnlessClosing'
    OBVIOUS
  <1> USE DEF InputInv, StoppedUnlessClosing
  <1>1. CASE HandlerFails \/ HandlerEnds
    <2>1. HandlerGoes("done")
      BY <1>1 DEF HandlerFails, HandlerEnds
    <2> QED
      BY <2>1, Goes DEF HandlerPc
  <1>2. CASE HandlerStarts \/ HandlerTests \/ HandlerWakes \/ HandlerOverrun
             \/ HandlerChooses \/ HandlerCalls \/ HandlerPushes
             \/ \E k \in Kind : HandlerHears(k)
    <2>1. handler.pc \notin {"none", "done"} /\ UNCHANGED <<doInput, owner, thread>>
      BY <1>2 DEF HandlerStarts, HandlerTests, HandlerWakes, HandlerOverrun, HandlerChooses,
                  HandlerCalls, HandlerPushes, HandlerHears, HandlerAt, handlerFrame, dataVars
    <2> QED
      BY <2>1
  <1>3. CASE OpenVirtualPort
    BY <1>3 DEF OpenVirtualPort
  <1>4. CASE \/ \E s \in IgnoreSets : IgnoreTypes(s)
             \/ SetCallback \/ GetMessage \/ CallbackSet \/ GettingMessage
    <2>1. owner \notin {"trigger", "joining"} /\ UNCHANGED <<doInput, thread, handler>>
      BY <1>4 DEF IgnoreTypes, SetCallback, GetMessage, CallbackSet, GettingMessage,
                  ownerFrame, dataVars
    <2> QED
      BY <2>1
  <1>5. CASE ClosePort \/ CloseTriggers
    <2>1. owner' \in {"trigger", "joining"} /\ UNCHANGED <<thread, handler>>
      BY <1>5 DEF ClosePort, CloseTriggers, ownerFrame, OwnerGoes
    <2> QED
      BY <2>1
  <1>6. CASE CloseJoins
    BY <1>6 DEF CloseJoins, HandlerAt, ownerFrame, dataVars
  <1>7. CASE UNCHANGED vars
    BY <1>7 DEF vars, inputVars, dataVars
  <1> QED
    BY <1>1, <1>2, <1>3, <1>4, <1>5, <1>6, <1>7 DEF Next, HandlerStep, OwnerStep

LEMMA GatheredStep == InputInv /\ [Next]_vars => Gathered'
  <1> SUFFICES ASSUME InputInv, [Next]_vars PROVE Gathered'
    OBVIOUS
  <1> USE BoundsAssumption DEF InputInv
  <1>1. CASE HandlerFails \/ HandlerStarts \/ HandlerTests \/ HandlerWakes \/ HandlerEnds
    <2>1. /\ UNCHANGED <<arrived, newest>>
          /\ \E pc \in HandlerPc \ {"deliver", "call", "pushing"} : HandlerGoes(pc)
      BY <1>1 DEF HandlerFails, HandlerStarts, HandlerTests, HandlerWakes, HandlerEnds,
                  HandlerPc, envVars
    <2> QED
      BY <2>1, Goes DEF Gathered, HandedOver
  <1>2. CASE HandlerOverrun
    <2>1. arrived' = arrived + 1 /\ newest' = newest /\ HandlerGoes("test")
      BY <1>2 DEF HandlerOverrun
    <2>2. /\ handler'.bytes = handler.bytes /\ handler'.pc = "test"
          /\ handler'.continueSysex = handler.continueSysex
      BY <2>1, Goes DEF HandlerPc
    <2>3. \A i \in 1 .. Len(handler.bytes) : handler.bytes[i].n <= arrived + 1
      <3>1. \A i \in 1 .. Len(handler.bytes) : handler.bytes[i] \in Event
        BY ElementOfSeq DEF HandlerTypeOK
      <3> QED
        BY <3>1 DEF Gathered, Event, HandlerTypeOK
    <2> QED
      BY <2>1, <2>2, <2>3 DEF Gathered, HandedOver, HandlerTypeOK
  <1>4. CASE HandlerChooses
    <2>1. UNCHANGED <<arrived, newest>> /\ HandlerAt("deliver")
          /\ (HandlerGoes("pushing") \/ HandlerGoes("call"))
      BY <1>4 DEF HandlerChooses, envVars
    <2> QED
      BY <2>1, Goes DEF Gathered, HandedOver, HandlerAt, HandlerPc
  <1>5. CASE HandlerCalls \/ HandlerPushes
    <2>1. HandedOver
      BY <1>5 DEF HandlerCalls, HandlerPushes, HandlerAt, HandedOver
    <2>2. CASE newest' = newest /\ handler' = handler
      BY <1>5, <2>2 DEF HandlerCalls, HandlerPushes, Gathered, HandedOver, envVars
    <2>3. CASE newest' = Latest(handler.bytes) /\ HandlerGoes("test")
      <3>1. /\ arrived' = arrived
            /\ handler'.bytes = handler.bytes /\ handler'.pc = "test" /\ ~handler'.continueSysex
        BY <1>5, <2>1, <2>3, Goes DEF HandlerCalls, HandlerPushes, envVars, Gathered, HandlerPc
      <3>2. Latest(handler.bytes) <= arrived
        BY <2>1, LatestOf DEF Gathered, HandlerTypeOK, Latest
      <3> QED
        BY <2>3, <3>1, <3>2 DEF Gathered, HandedOver
    <2> QED
      BY <1>5, <2>2, <2>3 DEF HandlerCalls, HandlerPushes
  <1>6. CASE OpenVirtualPort
    <2>1. /\ UNCHANGED <<arrived, newest>> /\ handler'.bytes = <<>>
          /\ handler'.pc = "starting"
      BY <1>6 DEF OpenVirtualPort
    <2> QED
      BY <2>1, EmptySeq DEF Gathered, HandedOver
  <1>7. CASE UNCHANGED <<handler, arrived, newest>>
    BY <1>7 DEF Gathered, HandedOver
  <1>3. ASSUME NEW k \in Kind, HandlerHears(k) PROVE Gathered'
    <2> DEFINE e == [n |-> arrived', kind |-> k]
    <2>1. /\ arrived' = arrived + 1 /\ newest' = newest /\ newest <= arrived
          /\ Kept \in Seq(Event) /\ e \in Event /\ e.n = arrived + 1
          /\ arrived \in Nat /\ newest \in Nat /\ Len(Kept) \in Nat
      BY <1>3, Hears, LenProperties DEF HandlerTypeOK, Gathered
    <2>2. /\ \A i \in 1 .. Len(Kept) : Kept[i].n <= arrived /\ Kept[i].n \in Nat
          /\ \A i \in 2 .. Len(Kept) : Kept[i - 1].n < Kept[i].n
          /\ Kept # <<>> => newest < Kept[1].n
      <3>0. \A i \in 1 .. Len(Kept) : Kept[i] \in Event
        BY <2>1, ElementOfSeq
      <3>1. \A i \in 1 .. Len(Kept) : Kept[i].n \in Nat
        BY <3>0, BoundsAssumption DEF Event
      <3>2. CASE handler.continueSysex
        BY <3>1, <3>2 DEF Kept, Gathered
      <3>3. CASE ~handler.continueSysex
        BY <3>3, EmptySeq DEF Kept
      <3> QED
        BY <3>1, <3>2, <3>3
    <2>3. /\ \A i \in 1 .. Len(Heard(k)) : Heard(k)[i].n <= arrived + 1
          /\ \A i \in 2 .. Len(Heard(k)) : Heard(k)[i - 1].n < Heard(k)[i].n
          /\ Heard(k) # <<>> => newest < Heard(k)[1].n
      <3>1. CASE ~Decoded(k)
        BY <2>1, <2>2, <3>1 DEF Heard
      <3>2. CASE Decoded(k)
        <4> DEFINE b == Append(Kept, e)
        <4>1. /\ Heard(k) = b /\ Len(b) = Len(Kept) + 1
              /\ \A i \in 1 .. Len(Kept) : b[i] = Kept[i]
              /\ b[Len(Kept) + 1] = e
          BY <2>1, <3>2, AppendEvent DEF Heard
        <4> HIDE DEF b, e
        <4>2. \A i \in 1 .. Len(b) : b[i].n <= arrived + 1
          <5> SUFFICES ASSUME NEW i \in 1 .. Len(b) PROVE b[i].n <= arrived + 1
            OBVIOUS
          <5>1. i \in 1 .. Len(Kept) \/ i = Len(Kept) + 1
            BY <2>1, <4>1
          <5>2. CASE i \in 1 .. Len(Kept)
            <6>1. b[i] = Kept[i] /\ Kept[i].n <= arrived /\ Kept[i].n \in Nat
              BY <2>2, <4>1, <5>2
            <6> QED
              BY ONLY <2>1, <6>1
          <5>3. CASE i = Len(Kept) + 1
            BY <2>1, <4>1, <5>3
          <5> QED
            BY <5>1, <5>2, <5>3
        <4>3. ASSUME NEW i \in 2 .. Len(b)
              PROVE  b[i - 1].n < b[i].n
          <5>1. i - 1 \in 1 .. Len(Kept) /\ (i \in 2 .. Len(Kept) \/ i = Len(Kept) + 1)
            BY <2>1, <4>1
          <5>2. CASE i \in 2 .. Len(Kept)
            <6>1. b[i] = Kept[i] /\ b[i - 1] = Kept[i - 1] /\ Kept[i - 1].n < Kept[i].n
              BY <2>2, <4>1, <5>1, <5>2
            <6> QED
              BY <6>1
          <5>3. CASE i = Len(Kept) + 1
            <6>1. b[i - 1] = Kept[i - 1] /\ Kept[i - 1].n <= arrived /\ Kept[i - 1].n \in Nat
              BY <2>2, <4>1, <5>1
            <6>2. b[i].n = arrived + 1
              BY <2>1, <4>1, <5>3
            <6> QED
              BY ONLY <2>1, <6>1, <6>2
          <5> QED
            BY <5>1, <5>2, <5>3
        <4>4. newest < b[1].n
          <5>1. CASE Len(Kept) = 0
            BY <2>1, <4>1, <5>1
          <5>2. CASE Len(Kept) # 0
            BY <2>1, <2>2, <4>1, <5>2, EmptySeq
          <5> QED
            BY <5>1, <5>2
        <4> QED
          BY <4>1, <4>2, <4>3, <4>4
      <3> QED
        BY <3>1, <3>2
    <2>4. /\ handler'.bytes = Heard(k) /\ handler'.continueSysex = More(k)
          /\ handler'.pc = IF Heard(k) = <<>> \/ More(k) THEN "test" ELSE "deliver"
      BY <1>3, Hears
    <2>5. HandedOver' => Heard(k) # <<>> /\ ~More(k)
      BY <2>4 DEF HandedOver
    <2> QED
      BY <2>1, <2>3, <2>4, <2>5 DEF Gathered
  <1> QED
    BY <1>1, <1>2, <1>3, <1>4, <1>5, <1>6, <1>7, OwnerFrame
    DEF Next, HandlerStep, vars, inputVars, envVars

-----------------------------------------------------------------------------
\* InputInv is an invariant of the port.
THEOREM InputInvariant == Spec => []InputInv
  <1>1. InputInv /\ [Next]_vars => InputInv'
    BY HandlerTypeStep, CallbackStep, StoppedStep, GatheredStep DEF InputInv
  <1> QED
    BY <1>1, InputStarts, PTL DEF Spec

(***************************************************************************)
(* midi_cue::init() sets the callback while the handler runs: the handler  *)
(* never calls a function that is not there.                               *)
(***************************************************************************)
THEOREM CallbackIsThere == Spec => []NeverCallsNull
  <1>1. InputInv => NeverCallsNull
    BY DEF InputInv, FlagMeansCallback, NeverCallsNull
  <1> QED
    BY <1>1, InputInvariant, PTL

\* Once closePort() has returned the handler touches nothing any more.
THEOREM ClosedIsQuiet == Spec => []QuietWhenClosed
  <1>1. InputInv => QuietWhenClosed
    BY DEF InputInv, StoppedUnlessClosing, QuietWhenClosed
  <1> QED
    BY <1>1, InputInvariant, PTL

(***************************************************************************)
(* However many events arrive, are ignored or lost, and however often the  *)
(* port is closed and opened: what is handed over is in the order of the   *)
(* events and follows all that was handed over before.                     *)
(***************************************************************************)
THEOREM DeliveryInOrder == Spec => []DeliversInOrder
  <1>1. InputInv => DeliversInOrder
    BY DEF InputInv, Gathered, HandedOver, DeliversInOrder
  <1> QED
    BY <1>1, InputInvariant, PTL

\* The queue of the port makes steps of MidiQueue only.
LEMMA InputQueueStep ==
  ASSUME Seq(Event) \subseteq Message
  PROVE  InputInv /\ [Next]_vars => [QueueNext]_queueVars
  <1> SUFFICES ASSUME InputInv, [Next]_vars PROVE [QueueNext]_queueVars
    OBVIOUS
  <1>1. CASE HandlerChooses
    <2>1. handler.bytes \in Message
      BY DEF InputInv, HandlerTypeOK
    <2> QED
      BY <1>1, <2>1 DEF HandlerChooses, QueueNext
  <1>2. CASE HandlerPushes
    BY <1>2 DEF HandlerPushes, QueueNext
  <1>3. CASE GetMessage \/ GettingMessage
    BY <1>3 DEF GetMessage, GettingMessage, QueueNext, PopStep
  <1>4. CASE UNCHANGED queueVars
    BY <1>4
  <1> QED
    BY <1>1, <1>2, <1>3, <1>4
    DEF Next, HandlerStep, HandlerFails, HandlerStarts, HandlerTests, HandlerWakes,
        HandlerOverrun, HandlerHears, HandlerCalls, HandlerEnds, OpenVirtualPort, IgnoreTypes,
        SetCallback, ClosePort, OwnerStep, CallbackSet, CloseTriggers, CloseJoins, vars

(***************************************************************************)
(* In use by the handler and the owner, across openings and closings, the  *)
(* ring remains the bounded FIFO.                                          *)
(***************************************************************************)
THEOREM InputImplementsFifo ==
  ASSUME Seq(Event) \subseteq Message
  PROVE  Spec => ImplementsFifo
  <1>1. Init => QueueInit
    BY DEF Init
  <1>2. InputInv /\ [Next]_vars => [QueueNext]_queueVars
    BY InputQueueStep
  <1>3. Spec => QueueSpec
    BY <1>1, <1>2, InputInvariant, PTL DEF Spec, QueueSpec
  <1> QED
    BY <1>3, QueueImplementsFifo, PTL

\* The flags stay flags.
LEMMA FlagsStay == FlagsAreBoolean /\ [Next]_vars => FlagsAreBoolean'
  <1> SUFFICES ASSUME FlagsAreBoolean, [Next]_vars PROVE FlagsAreBoolean'
    OBVIOUS
  <1> USE DEF FlagsAreBoolean
  <1>1. CASE HandlerStarts \/ HandlerTests \/ HandlerChooses \/ HandlerCalls \/ HandlerPushes
             \/ HandlerEnds \/ HandlerWakes \/ CloseTriggers \/ CloseJoins \/ GetMessage
             \/ GettingMessage \/ \E s \in IgnoreSets : IgnoreTypes(s)
    <2>1. UNCHANGED <<doInput, underway, userCallback, usingCallback>>
      BY <1>1 DEF HandlerStarts, HandlerTests, HandlerChooses, HandlerCalls, HandlerPushes,
         HandlerEnds, HandlerWakes, CloseTriggers, CloseJoins, GetMessage, GettingMessage,
         IgnoreTypes, handlerFrame, dataVars, envVars
    <2> QED
      BY <2>1
  <1>2. CASE HandlerOverrun \/ \E k \in Kind : HandlerHears(k)
    <2>1. /\ UNCHANGED <<doInput, userCallback, usingCallback>>
          /\ underway' \in BOOLEAN
      BY <1>2 DEF HandlerOverrun, HandlerHears, Underway, handlerFrame, dataVars
    <2> QED
      BY <2>1
  <1>3. CASE HandlerFails
    BY <1>3 DEF HandlerFails, envVars
  <1>4. CASE OpenVirtualPort
    BY <1>4 DEF OpenVirtualPort
  <1>5. CASE SetCallback
    BY <1>5 DEF SetCallback, envVars
  <1>6. CASE CallbackSet
    BY <1>6 DEF CallbackSet, envVars
  <1>7. CASE ClosePort
    BY <1>7 DEF ClosePort, envVars
  <1>8. CASE UNCHANGED vars
    BY <1>8 DEF vars, inputVars, dataVars, envVars
  <1> QED
    BY <1>1, <1>2, <1>3, <1>4, <1>5, <1>6, <1>7, <1>8 DEF Next, HandlerStep, OwnerStep

\* OwnerInv and FlagsAreBoolean are invariants by themselves.
LEMMA OwnerStarts == Init => OwnerInv /\ FlagsAreBoolean
  <1> SUFFICES ASSUME Init PROVE OwnerInv /\ FlagsAreBoolean
    OBVIOUS
  <1>1. FlagsAreBoolean
    BY DEF Init, FlagsAreBoolean
  <1> QED
    BY <1>1, BoundsAssumption DEF Init, OwnerInv, OwnerTypeOK

LEMMA OwnerInvStep == OwnerInv /\ [Next]_vars => OwnerInv'
  <1> SUFFICES ASSUME OwnerInv, [Next]_vars PROVE OwnerInv'
    OBVIOUS
  <1> USE BoundsAssumption DEF OwnerInv, OwnerTypeOK
  <1>1. CASE HandlerStarts \/ HandlerTests \/ HandlerChooses \/ HandlerCalls \/ HandlerPushes
             \/ HandlerOverrun \/ SetCallback \/ CallbackSet \/ GetMessage \/ GettingMessage
             \/ CloseJoins \/ \E k \in Kind : HandlerHears(k)
    <2>1. /\ UNCHANGED <<ignored, thread, trigger, opens, doInput>>
          /\ owner' = owner \/ (owner # "trigger" /\ owner' \in {"idle", "setting", "popping"})
      BY <1>1 DEF HandlerStarts, HandlerTests, HandlerChooses, HandlerCalls, HandlerPushes,
         HandlerOverrun, HandlerHears, SetCallback, CallbackSet, GetMessage, GettingMessage,
         CloseJoins, handlerFrame, dataVars, OwnerGoes
    <2> QED
      BY <2>1
  <1>2. CASE HandlerFails \/ HandlerEnds
    <2>1. /\ UNCHANGED <<ignored, trigger, opens, owner>>
          /\ thread' \in {thread, "dummy"} /\ (doInput' => doInput)
      BY <1>2 DEF HandlerFails, HandlerEnds, handlerFrame, dataVars
    <2> QED
      BY <2>1
  <1>3. CASE HandlerWakes
    <2>1. /\ UNCHANGED <<ignored, thread, opens, doInput, owner>>
          /\ trigger > 0 /\ trigger' = trigger - 1
      BY <1>3 DEF HandlerWakes, dataVars
    <2> QED
      BY <2>1
  <1>4. CASE OpenVirtualPort
    <2>1. /\ UNCHANGED <<ignored, trigger, owner>> /\ owner = "idle"
          /\ thread' = "handler" /\ opens < MaxOpens /\ opens' = opens + 1
      BY <1>4 DEF OpenVirtualPort
    <2> QED
      BY <2>1
  <1>5. ASSUME NEW s \in IgnoreSets, IgnoreTypes(s) PROVE OwnerInv'
    <2>1. UNCHANGED <<thread, trigger, opens, doInput, owner>> /\ ignored' = s
      BY <1>5 DEF IgnoreTypes
    <2> QED
      BY <2>1, IgnoreAssumption
  <1>6. CASE ClosePort
    <2>1. /\ UNCHANGED <<ignored, thread, trigger, opens>>
          /\ owner' = "trigger" /\ doInput /\ ~doInput'
      BY <1>6 DEF ClosePort, OwnerGoes
    <2> QED
      BY <2>1
  <1>7. CASE CloseTriggers
    <2>1. /\ UNCHANGED <<ignored, thread, opens, doInput>>
          /\ owner = "trigger" /\ owner' = "joining" /\ trigger' = trigger + 1
      BY <1>7 DEF CloseTriggers, OwnerGoes, dataVars
    <2> QED
      BY <2>1
  <1>8. CASE UNCHANGED vars
    <2>1. UNCHANGED <<ignored, thread, trigger, opens, doInput, owner>>
      BY <1>8 DEF vars, inputVars, dataVars
    <2> QED
      BY <2>1
  <1> QED
    BY <1>1, <1>2, <1>3, <1>4, <1>5, <1>6, <1>7, <1>8 DEF Next, HandlerStep, OwnerStep

(***************************************************************************)
(* Every variable of the port and its queue keeps its type; the pipe that  *)
(* wakes the handler holds one byte for each opening at most.              *)
(***************************************************************************)
THEOREM InputTypeCorrect ==
  ASSUME Seq(Event) \subseteq Message
  PROVE  Spec => []TypeOK
  <1>1. Spec => [](OwnerInv /\ FlagsAreBoolean)
    BY OwnerStarts, OwnerInvStep, FlagsStay, PTL DEF Spec
  <1>2. Init => QueueInit
    BY DEF Init
  <1>3. Spec => QueueSpec
    BY <1>2, InputQueueStep, InputInvariant, PTL DEF Spec, QueueSpec
  <1>4. QueueInv /\ InputInv /\ OwnerInv /\ FlagsAreBoolean => TypeOK
    <2> SUFFICES ASSUME QueueInv, InputInv, OwnerInv, FlagsAreBoolean PROVE TypeOK
      OBVIOUS
    <2>1. QueueTypeOK /\ HandlerTypeOK /\ OwnerTypeOK
      BY DEF QueueInv, InputInv, OwnerInv
    <2>2. trigger \in 0 .. MaxOpens
      BY BoundsAssumption DEF OwnerInv, OwnerTypeOK
    <2>3. {doInput, userCallback, usingCallback, underway} \subseteq BOOLEAN
      BY ONLY FlagsAreBoolean, Zenon DEF FlagsAreBoolean
    <2> QED
      BY <2>1, <2>2, <2>3 DEF TypeOK, HandlerTypeOK, OwnerTypeOK, HandlerPc
  <1> QED
    BY <1>1, <1>3, <1>4, InputInvariant, QueueInvariant, PTL

=============================================================================
