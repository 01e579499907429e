------------------------- MODULE SessionRoomProofs -------------------------
(***************************************************************************)
(* Proofs about SessionRoom, for any sets of sessions and messages and any *)
(* MaxQueue.  The four safety properties are consequences of one inductive *)
(* invariant, RoomInv: the properties themselves, strengthened by what the *)
(* io thread and the clock thread cannot do to each other:                 *)
(*   - the relay has nobody left to serve when it is idle, and does not    *)
(*     run while a writer is between empty() and async_wait();             *)
(*   - the clock's loop delivers to a session at most once, and only to    *)
(*     sessions that were accepted;                                        *)
(*   - hence a writer in that gap meets at most one push_back().           *)
(***************************************************************************)
EXTENDS SessionRoom, SequenceTheorems, TLAPS

\* A writer is at, or about to begin, async_wait() only with an open socket.
SleepersAreOpen ==
  \A s \in Session : writer[s] \in {"arming", "waiting"} => socket[s] = "open"

\* The relay is confined to the io thread.
RelayIsAlone ==
  /\ relay.by = NoSession => relay.todo = {}
  /\ \A s \in Session : writer[s] = "arming" => relay.by = NoSession

\* One pass of the clock's loop visits accepted sessions, each at most once.
ClockVisitsOnce ==
  /\ clock.stage = "sleep" => clock.todo = {}
  /\ \A s \in clock.todo : socket[s] # "none"
  /\ clock.stage \in {"push", "cancel"} =>
       clock.at \notin clock.todo /\ socket[clock.at] # "none"

\* The gap between empty() and async_wait() lets in one message of one pass.
OnePushWhileArming ==
  \A s \in Session :
    writer[s] = "arming" /\ write_msgs_[s] # <<>> =>
      /\ Len(write_msgs_[s]) = 1
      /\ s \notin clock.todo
      /\ ~(clock.stage = "push" /\ clock.at = s)

RoomInv ==
  /\ TypeOK
  /\ WriterHoldsFront
  /\ RoomIsOpenSockets
  /\ SleepersAreOpen
  /\ RelayIsAlone
  /\ ClockVisitsOnce
  /\ OnePushWhileArming
  /\ LateByOneBar

-----------------------------------------------------------------------------
(* What the steps do to a queue                                            *)

\* push_back() keeps the type and the front of a queue and adds one element.
LEMMA PushBack ==
  ASSUME NEW q \in Seq(Message), NEW m \in Message
  PROVE  /\ Append(q, m) \in Seq(Message)
         /\ Append(q, m) # <<>>
         /\ Len(Append(q, m)) = Len(q) + 1
         /\ q # <<>> => Head(Append(q, m)) = Head(q)
  <1>1. ASSUME q # <<>> PROVE Head(Append(q, m)) = Head(q)
    <2>1. 1 \in 1 .. Len(q)
      BY <1>1, EmptySeq, LenProperties
    <2>2. Append(q, m)[1] = q[1]
      BY <2>1, AppendProperties
    <2> QED
      BY <2>2, <1>1, AppendProperties
  <1> QED
    BY <1>1, AppendProperties

\* front() and pop_front() of a queue that is not empty.
LEMMA PopFront ==
  ASSUME NEW q \in Seq(Message), q # <<>>
  PROVE  Head(q) \in Message /\ Tail(q) \in Seq(Message)
  OBVIOUS

\* A queue is empty exactly when its length is zero.
LEMMA EmptyQueue ==
  ASSUME NEW q \in Seq(Message)
  PROVE  /\ Len(q) \in Nat
         /\ (q = <<>>) <=> (Len(q) = 0)
  OBVIOUS

\* A queue that is empty or has one element.
LEMMA ShortQueue ==
  ASSUME NEW q, q = <<>> \/ Len(q) = 1
  PROVE  Len(q) <= 1
  OBVIOUS

\* A join during a pass of the clock thread adds at most the new session to it.
LEMMA AcceptInPass ==
  ASSUME TypeOK, NEW s \in Session, Accept(s)
  PROVE  /\ clock' \in ClockRecord
         /\ clock'.stage = clock.stage /\ clock'.at = clock.at
         /\ clock'.msg = clock.msg
         /\ clock'.todo \subseteq clock.todo \cup {s}
         /\ clock.stage = "sleep" => clock'.todo = clock.todo
  <1>1. clock \in ClockRecord
    BY DEF TypeOK
  <1>2. CASE ~Iterating /\ UNCHANGED clock
    BY <1>1, <1>2
  <1>3. ASSUME Iterating, NEW more \in {{}, {s}},
               clock' = [clock EXCEPT !.setRaced = TRUE, !.todo = @ \cup more]
        PROVE  /\ clock' \in ClockRecord
               /\ clock'.stage = clock.stage /\ clock'.at = clock.at
               /\ clock'.msg = clock.msg
               /\ clock'.todo = clock.todo \cup more
    BY <1>1, <1>3 DEF ClockRecord
  <1> QED
    BY <1>2, <1>3 DEF Accept, Iterating

-----------------------------------------------------------------------------
(* RoomInv holds initially and is preserved, one conjunct at a time        *)

\* The server starts with an empty room and idle threads.
LEMMA RoomInit == Init => RoomInv
  <1> SUFFICES ASSUME Init PROVE RoomInv
    OBVIOUS
  <1> USE SessionAssumption, MessageAssumption DEF Init, RelayIdle, ClockIdle
  <1>1. TypeOK
    BY DEF TypeOK, SocketState, ReaderState, WriterState, ClockStage,
           RelayRecord, ClockRecord
  <1>2. WriterHoldsFront /\ RoomIsOpenSockets /\ SleepersAreOpen
    BY DEF WriterHoldsFront, RoomIsOpenSockets, SleepersAreOpen
  <1>3. RelayIsAlone /\ ClockVisitsOnce /\ OnePushWhileArming
    BY DEF RelayIsAlone, ClockVisitsOnce, OnePushWhileArming
  <1>4. LateByOneBar
    BY DEF LateByOneBar
  <1> QED
    BY <1>1, <1>2, <1>3, <1>4 DEF RoomInv

\* The types: pop_front() and front() meet a queue that is not empty.
LEMMA TypeStep == RoomInv /\ [Next]_vars => TypeOK'
  <1> SUFFICES ASSUME RoomInv, [Next]_vars PROVE TypeOK'
    OBVIOUS
  <1> USE SessionAssumption, MessageAssumption DEF RoomInv, TypeOK, SocketState, ReaderState, WriterState, ClockStage,
             RelayRecord, ClockRecord,
             WriterHoldsFront, RelayIsAlone, sessionVars, writerVars
  <1>1. ASSUME NEW s \in Session, Accept(s) PROVE TypeOK'
    BY <1>1, AcceptInPass DEF Accept
  <1>2. ASSUME NEW s \in Session, NEW m \in Message, ReaderGetsLine(s, m) PROVE TypeOK'
    BY <1>2 DEF ReaderGetsLine, IoIdle
  <1>3. ASSUME NEW s \in Session, ReaderFails(s) PROVE TypeOK'
    BY <1>3 DEF ReaderFails, Stop, Cancel, Iterating
  <1>4. ASSUME NEW s \in Session, WriterResumes(s) PROVE TypeOK'
    BY <1>4, PopFront DEF WriterResumes, EnterLoop, LoopHead, IoIdle
  <1>5. ASSUME NEW s \in Session, WriterWaits(s) PROVE TypeOK'
    BY <1>5 DEF WriterWaits
  <1>6. ASSUME NEW s \in Session, BodyWritten(s) PROVE TypeOK'
    BY <1>6 DEF BodyWritten
  <1>7. ASSUME NEW s \in Session, NewlineWritten(s) PROVE TypeOK'
    BY <1>7, PopFront DEF NewlineWritten, EnterLoop, LoopHead, TouchQueue, IoIdle
  <1>8. ASSUME NEW s \in Session, WriteFails(s) PROVE TypeOK'
    BY <1>8 DEF WriteFails, Stop, Iterating
  <1>9. ASSUME ListenerUnwound PROVE TypeOK'
    BY <1>9 DEF ListenerUnwound
  <1>10. ASSUME NEW s \in Session, RelayTo(s) PROVE TypeOK'
    BY <1>10, PushBack DEF RelayTo, Cancel, TouchQueue
  <1>11. ASSUME RelayEnds PROVE TypeOK'
    BY <1>11 DEF RelayEnds, RelayIdle
  <1>12. ASSUME NEW m \in Message, ClockBroadcasts(m) PROVE TypeOK'
    BY <1>12 DEF ClockBroadcasts, ClockIdle, BarOutlastsArming
  <1>13. ASSUME NEW s \in Session, ClockReaches(s) PROVE TypeOK'
    BY <1>13 DEF ClockReaches
  <1>14. ASSUME ClockPushes PROVE TypeOK'
    <2>1. clock' \in ClockRecord /\ clock'.stage = "cancel"
            /\ clock'.at = clock.at /\ clock'.msg = clock.msg
      BY <1>14 DEF ClockPushes
    <2>2. /\ write_msgs_[clock.at] \in Seq(Message)
          /\ clock.msg \in Message
      BY <1>14 DEF ClockPushes
    <2>3. Append(write_msgs_[clock.at], clock.msg) \in Seq(Message)
      BY <2>2, PushBack
    <2>4. CASE write_msgs_' = [write_msgs_ EXCEPT ![clock.at] =
                                 Append(write_msgs_[clock.at], clock.msg)]
      BY <1>14, <2>1, <2>3, <2>4 DEF ClockPushes
    <2>5. CASE write_msgs_' = write_msgs_
      BY <1>14, <2>1, <2>5 DEF ClockPushes
    <2> QED
      BY <1>14, <2>4, <2>5 DEF ClockPushes
  <1>15. ASSUME ClockCancels PROVE TypeOK'
    BY <1>15 DEF ClockCancels, Cancel
  <1>16. ASSUME ClockEnds PROVE TypeOK'
    BY <1>16 DEF ClockEnds, ClockIdle
  <1>17. ASSUME RaceKills PROVE TypeOK'
    BY <1>17 DEF RaceKills
  <1>18. CASE UNCHANGED vars
    BY <1>18 DEF vars
  <1> QED
    BY <1>1, <1>2, <1>3, <1>4, <1>5, <1>6, <1>7, <1>8, <1>9, <1>10, <1>11,
       <1>12, <1>13, <1>14, <1>15, <1>16, <1>17, <1>18
       DEF Next, Writer, Relay, ClockThread

\* The front of the queue of a writing writer.
LEMMA FrontStep == RoomInv /\ [Next]_vars => WriterHoldsFront'
  <1> SUFFICES ASSUME RoomInv, [Next]_vars PROVE WriterHoldsFront'
    OBVIOUS
  <1> USE SessionAssumption, MessageAssumption DEF RoomInv, TypeOK, WriterHoldsFront, RelayIsAlone, sessionVars, writerVars
  <1>1. ASSUME NEW s \in Session, Accept(s) PROVE WriterHoldsFront'
    BY <1>1 DEF Accept, Iterating
  <1>2. ASSUME NEW s \in Session, NEW m \in Message, ReaderGetsLine(s, m) PROVE WriterHoldsFront'
    BY <1>2 DEF ReaderGetsLine, IoIdle
  <1>3. ASSUME NEW s \in Session, ReaderFails(s) PROVE WriterHoldsFront'
    BY <1>3 DEF ReaderFails, Stop, Cancel, Iterating
  <1>4. ASSUME NEW s \in Session, WriterResumes(s) PROVE WriterHoldsFront'
    BY <1>4, PopFront DEF WriterResumes, EnterLoop, LoopHead, IoIdle
  <1>5. ASSUME NEW s \in Session, WriterWaits(s) PROVE WriterHoldsFront'
    BY <1>5 DEF WriterWaits
  <1>6. ASSUME NEW s \in Session, BodyWritten(s) PROVE WriterHoldsFront'
    BY <1>6 DEF BodyWritten
  <1>7. ASSUME NEW s \in Session, NewlineWritten(s) PROVE WriterHoldsFront'
    BY <1>7, PopFront DEF NewlineWritten, EnterLoop, LoopHead, TouchQueue, IoIdle
  <1>8. ASSUME NEW s \in Session, WriteFails(s) PROVE WriterHoldsFront'
    BY <1>8 DEF WriteFails, Stop, Iterating
  <1>9. ASSUME ListenerUnwound PROVE WriterHoldsFront'
    BY <1>9 DEF ListenerUnwound
  <1>10. ASSUME NEW s \in Session, RelayTo(s) PROVE WriterHoldsFront'
    BY <1>10, PushBack DEF RelayTo, Cancel, TouchQueue
  <1>11. ASSUME RelayEnds PROVE WriterHoldsFront'
    BY <1>11 DEF RelayEnds, RelayIdle
  <1>12. ASSUME NEW m \in Message, ClockBroadcasts(m) PROVE WriterHoldsFront'
    BY <1>12 DEF ClockBroadcasts, ClockIdle, BarOutlastsArming
  <1>13. ASSUME NEW s \in Session, ClockReaches(s) PROVE WriterHoldsFront'
    BY <1>13 DEF ClockReaches
  <1>14. ASSUME ClockPushes PROVE WriterHoldsFront'
    <2> DEFINE q == write_msgs_[clock.at]
    <2>1. clock.at \in Session /\ clock.msg \in Message /\ q \in Seq(Message)
      BY <1>14 DEF ClockPushes
    <2>2. /\ Append(q, clock.msg) # <<>>
          /\ q # <<>> => Head(Append(q, clock.msg)) = Head(q)
      BY <2>1, PushBack
    <2> QED
      BY <1>14, <2>1, <2>2 DEF ClockPushes
  <1>15. ASSUME ClockCancels PROVE WriterHoldsFront'
    BY <1>15 DEF ClockCancels, Cancel
  <1>16. ASSUME ClockEnds PROVE WriterHoldsFront'
    BY <1>16 DEF ClockEnds, ClockIdle
  <1>17. ASSUME RaceKills PROVE WriterHoldsFront'
    BY <1>17 DEF RaceKills
  <1>18. CASE UNCHANGED vars
    BY <1>18 DEF vars
  <1> QED
    BY <1>1, <1>2, <1>3, <1>4, <1>5, <1>6, <1>7, <1>8, <1>9, <1>10, <1>11,
       <1>12, <1>13, <1>14, <1>15, <1>16, <1>17, <1>18
       DEF Next, Writer, Relay, ClockThread

\* The seats of the room.
LEMMA SeatStep == RoomInv /\ [Next]_vars => RoomIsOpenSockets'
  <1> SUFFICES ASSUME RoomInv, [Next]_vars PROVE RoomIsOpenSockets'
    OBVIOUS
  <1> USE SessionAssumption, MessageAssumption DEF RoomInv, TypeOK, RoomIsOpenSockets, SocketState, sessionVars, writerVars
  <1>1. ASSUME NEW s \in Session, Accept(s) PROVE RoomIsOpenSockets'
    BY <1>1 DEF Accept, Iterating
  <1>2. ASSUME NEW s \in Session, NEW m \in Message, ReaderGetsLine(s, m) PROVE RoomIsOpenSockets'
    BY <1>2 DEF ReaderGetsLine, IoIdle
  <1>3. ASSUME NEW s \in Session, ReaderFails(s) PROVE RoomIsOpenSockets'
    BY <1>3 DEF ReaderFails, Stop, Cancel, Iterating
  <1>4. ASSUME NEW s \in Session, WriterResumes(s) PROVE RoomIsOpenSockets'
    BY <1>4 DEF WriterResumes, EnterLoop, LoopHead, IoIdle
  <1>5. ASSUME NEW s \in Session, WriterWaits(s) PROVE RoomIsOpenSockets'
    BY <1>5 DEF WriterWaits
  <1>6. ASSUME NEW s \in Session, BodyWritten(s) PROVE RoomIsOpenSockets'
    BY <1>6 DEF BodyWritten
  <1>7. ASSUME NEW s \in Session, NewlineWritten(s) PROVE RoomIsOpenSockets'
    BY <1>7 DEF NewlineWritten, EnterLoop, LoopHead, TouchQueue, IoIdle
  <1>8. ASSUME NEW s \in Session, WriteFails(s) PROVE RoomIsOpenSockets'
    BY <1>8 DEF WriteFails, Stop, Iterating
  <1>9. ASSUME ListenerUnwound PROVE RoomIsOpenSockets'
    BY <1>9 DEF ListenerUnwound
  <1>10. ASSUME NEW s \in Session, RelayTo(s) PROVE RoomIsOpenSockets'
    BY <1>10 DEF RelayTo, Cancel, TouchQueue
  <1>11. ASSUME RelayEnds PROVE RoomIsOpenSockets'
    BY <1>11 DEF RelayEnds, RelayIdle
  <1>12. ASSUME NEW m \in Message, ClockBroadcasts(m) PROVE RoomIsOpenSockets'
    BY <1>12 DEF ClockBroadcasts, ClockIdle, BarOutlastsArming
  <1>13. ASSUME NEW s \in Session, ClockReaches(s) PROVE RoomIsOpenSockets'
    BY <1>13 DEF ClockReaches
  <1>14. ASSUME ClockPushes PROVE RoomIsOpenSockets'
    BY <1>14 DEF ClockPushes
  <1>15. ASSUME ClockCancels PROVE RoomIsOpenSockets'
    BY <1>15 DEF ClockCancels, Cancel
  <1>16. ASSUME ClockEnds PROVE RoomIsOpenSockets'
    BY <1>16 DEF ClockEnds, ClockIdle
  <1>17. ASSUME RaceKills PROVE RoomIsOpenSockets'
    BY <1>17 DEF RaceKills
  <1>18. CASE UNCHANGED vars
    BY <1>18 DEF vars
  <1> QED
    BY <1>1, <1>2, <1>3, <1>4, <1>5, <1>6, <1>7, <1>8, <1>9, <1>10, <1>11,
       <1>12, <1>13, <1>14, <1>15, <1>16, <1>17, <1>18
       DEF Next, Writer, Relay, ClockThread

\* A writer goes to sleep with an open socket, and stop() wakes it.
LEMMA SleeperStep == RoomInv /\ [Next]_vars => SleepersAreOpen'
  <1> SUFFICES ASSUME RoomInv, [Next]_vars PROVE SleepersAreOpen'
    OBVIOUS
  <1> USE SessionAssumption, MessageAssumption DEF RoomInv, TypeOK, SleepersAreOpen, sessionVars, writerVars
  <1>1. ASSUME NEW s \in Session, Accept(s) PROVE SleepersAreOpen'
    BY <1>1 DEF Accept, Iterating
  <1>2. ASSUME NEW s \in Session, NEW m \in Message, ReaderGetsLine(s, m) PROVE SleepersAreOpen'
    BY <1>2 DEF ReaderGetsLine, IoIdle
  <1>3. ASSUME NEW s \in Session, ReaderFails(s) PROVE SleepersAreOpen'
    <2>1. /\ socket' = [socket EXCEPT ![s] = "closed"]
          /\ \A u \in Session : writer[u] # "arming"
          /\ writer' = Cancel(s, writer)
      BY <1>3 DEF ReaderFails, Stop, IoIdle
    <2>2. writer'[s] \notin {"arming", "waiting"}
      BY <2>1 DEF Cancel
    <2>3. \A u \in Session \ {s} : writer'[u] = writer[u] /\ socket'[u] = socket[u]
      BY <2>1 DEF Cancel
    <2> QED
      BY <2>2, <2>3
  <1>4. ASSUME NEW s \in Session, WriterResumes(s) PROVE SleepersAreOpen'
    BY <1>4 DEF WriterResumes, EnterLoop, LoopHead, IoIdle
  <1>5. ASSUME NEW s \in Session, WriterWaits(s) PROVE SleepersAreOpen'
    BY <1>5 DEF WriterWaits
  <1>6. ASSUME NEW s \in Session, BodyWritten(s) PROVE SleepersAreOpen'
    BY <1>6 DEF BodyWritten
  <1>7. ASSUME NEW s \in Session, NewlineWritten(s) PROVE SleepersAreOpen'
    BY <1>7 DEF NewlineWritten, EnterLoop, LoopHead, TouchQueue, IoIdle
  <1>8. ASSUME NEW s \in Session, WriteFails(s) PROVE SleepersAreOpen'
    BY <1>8 DEF WriteFails, Stop, Iterating
  <1>9. ASSUME ListenerUnwound PROVE SleepersAreOpen'
    BY <1>9 DEF ListenerUnwound
  <1>10. ASSUME NEW s \in Session, RelayTo(s) PROVE SleepersAreOpen'
    BY <1>10 DEF RelayTo, Cancel, TouchQueue
  <1>11. ASSUME RelayEnds PROVE SleepersAreOpen'
    BY <1>11 DEF RelayEnds, RelayIdle
  <1>12. ASSUME NEW m \in Message, ClockBroadcasts(m) PROVE SleepersAreOpen'
    BY <1>12 DEF ClockBroadcasts, ClockIdle, BarOutlastsArming
  <1>13. ASSUME NEW s \in Session, ClockReaches(s) PROVE SleepersAreOpen'
    BY <1>13 DEF ClockReaches
  <1>14. ASSUME ClockPushes PROVE SleepersAreOpen'
    BY <1>14 DEF ClockPushes
  <1>15. ASSUME ClockCancels PROVE SleepersAreOpen'
    BY <1>15 DEF ClockCancels, Cancel
  <1>16. ASSUME ClockEnds PROVE SleepersAreOpen'
    BY <1>16 DEF ClockEnds, ClockIdle
  <1>17. ASSUME RaceKills PROVE SleepersAreOpen'
    BY <1>17 DEF RaceKills
  <1>18. CASE UNCHANGED vars
    BY <1>18 DEF vars
  <1> QED
    BY <1>1, <1>2, <1>3, <1>4, <1>5, <1>6, <1>7, <1>8, <1>9, <1>10, <1>11,
       <1>12, <1>13, <1>14, <1>15, <1>16, <1>17, <1>18
       DEF Next, Writer, Relay, ClockThread

\* The relay runs alone on the io thread.
LEMMA RelayStep == RoomInv /\ [Next]_vars => RelayIsAlone'
  <1> SUFFICES ASSUME RoomInv, [Next]_vars PROVE RelayIsAlone'
    OBVIOUS
  <1> USE SessionAssumption, MessageAssumption DEF RoomInv, TypeOK, RelayIsAlone, sessionVars, writerVars
  <1>1. ASSUME NEW s \in Session, Accept(s) PROVE RelayIsAlone'
    BY <1>1 DEF Accept, Iterating
  <1>2. ASSUME NEW s \in Session, NEW m \in Message, ReaderGetsLine(s, m) PROVE RelayIsAlone'
    BY <1>2 DEF ReaderGetsLine, IoIdle
  <1>3. ASSUME NEW s \in Session, ReaderFails(s) PROVE RelayIsAlone'
    BY <1>3 DEF ReaderFails, Stop, Cancel, Iterating
  <1>4. ASSUME NEW s \in Session, WriterResumes(s) PROVE RelayIsAlone'
    BY <1>4 DEF WriterResumes, EnterLoop, LoopHead, IoIdle
  <1>5. ASSUME NEW s \in Session, WriterWaits(s) PROVE RelayIsAlone'
    BY <1>5 DEF WriterWaits
  <1>6. ASSUME NEW s \in Session, BodyWritten(s) PROVE RelayIsAlone'
    BY <1>6 DEF BodyWritten
  <1>7. ASSUME NEW s \in Session, NewlineWritten(s) PROVE RelayIsAlone'
    BY <1>7 DEF NewlineWritten, EnterLoop, LoopHead, TouchQueue, IoIdle
  <1>8. ASSUME NEW s \in Session, WriteFails(s) PROVE RelayIsAlone'
    BY <1>8 DEF WriteFails, Stop, Iterating
  <1>9. ASSUME ListenerUnwound PROVE RelayIsAlone'
    BY <1>9 DEF ListenerUnwound
  <1>10. ASSUME NEW s \in Session, RelayTo(s) PROVE RelayIsAlone'
    BY <1>10 DEF RelayTo, Cancel, TouchQueue
  <1>11. ASSUME RelayEnds PROVE RelayIsAlone'
    BY <1>11 DEF RelayEnds, RelayIdle
  <1>12. ASSUME NEW m \in Message, ClockBroadcasts(m) PROVE RelayIsAlone'
    BY <1>12 DEF ClockBroadcasts, ClockIdle, BarOutlastsArming
  <1>13. ASSUME NEW s \in Session, ClockReaches(s) PROVE RelayIsAlone'
    BY <1>13 DEF ClockReaches
  <1>14. ASSUME ClockPushes PROVE RelayIsAlone'
    BY <1>14 DEF ClockPushes
  <1>15. ASSUME ClockCancels PROVE RelayIsAlone'
    BY <1>15 DEF ClockCancels, Cancel
  <1>16. ASSUME ClockEnds PROVE RelayIsAlone'
    BY <1>16 DEF ClockEnds, ClockIdle
  <1>17. ASSUME RaceKills PROVE RelayIsAlone'
    BY <1>17 DEF RaceKills
  <1>18. CASE UNCHANGED vars
    BY <1>18 DEF vars
  <1> QED
    BY <1>1, <1>2, <1>3, <1>4, <1>5, <1>6, <1>7, <1>8, <1>9, <1>10, <1>11,
       <1>12, <1>13, <1>14, <1>15, <1>16, <1>17, <1>18
       DEF Next, Writer, Relay, ClockThread

\* The pass of the clock thread over the room.
LEMMA VisitStep == RoomInv /\ [Next]_vars => ClockVisitsOnce'
  <1> SUFFICES ASSUME RoomInv, [Next]_vars PROVE ClockVisitsOnce'
    OBVIOUS
  <1> USE SessionAssumption, MessageAssumption DEF RoomInv, TypeOK, RoomIsOpenSockets, ClockVisitsOnce, SocketState, RelayRecord, ClockRecord, ClockStage, sessionVars, writerVars
  <1>1. ASSUME NEW s \in Session, Accept(s) PROVE ClockVisitsOnce'
    <2>1. socket' = [socket EXCEPT ![s] = "open"] /\ socket[s] = "none"
      BY <1>1 DEF Accept
    <2> QED
      BY <1>1, <2>1, AcceptInPass
  <1>2. ASSUME NEW s \in Session, NEW m \in Message, ReaderGetsLine(s, m) PROVE ClockVisitsOnce'
    BY <1>2 DEF ReaderGetsLine, IoIdle
  <1>3. ASSUME NEW s \in Session, ReaderFails(s) PROVE ClockVisitsOnce'
    BY <1>3 DEF ReaderFails, Stop, Cancel, Iterating
  <1>4. ASSUME NEW s \in Session, WriterResumes(s) PROVE ClockVisitsOnce'
    BY <1>4 DEF WriterResumes, EnterLoop, LoopHead, IoIdle
  <1>5. ASSUME NEW s \in Session, WriterWaits(s) PROVE ClockVisitsOnce'
    BY <1>5 DEF WriterWaits
  <1>6. ASSUME NEW s \in Session, BodyWritten(s) PROVE ClockVisitsOnce'
    BY <1>6 DEF BodyWritten
  <1>7. ASSUME NEW s \in Session, NewlineWritten(s) PROVE ClockVisitsOnce'
    BY <1>7 DEF NewlineWritten, EnterLoop, LoopHead, TouchQueue, IoIdle
  <1>8. ASSUME NEW s \in Session, WriteFails(s) PROVE ClockVisitsOnce'
    BY <1>8 DEF WriteFails, Stop, Iterating
  <1>9. ASSUME ListenerUnwound PROVE ClockVisitsOnce'
    BY <1>9 DEF ListenerUnwound
  <1>10. ASSUME NEW s \in Session, RelayTo(s) PROVE ClockVisitsOnce'
    BY <1>10 DEF RelayTo, Cancel, TouchQueue
  <1>11. ASSUME RelayEnds PROVE ClockVisitsOnce'
    BY <1>11 DEF RelayEnds, RelayIdle
  <1>12. ASSUME NEW m \in Message, ClockBroadcasts(m) PROVE ClockVisitsOnce'
    BY <1>12 DEF ClockBroadcasts, ClockIdle, BarOutlastsArming
  <1>13. ASSUME NEW s \in Session, ClockReaches(s) PROVE ClockVisitsOnce'
    BY <1>13 DEF ClockReaches
  <1>14. ASSUME ClockPushes PROVE ClockVisitsOnce'
    BY <1>14 DEF ClockPushes
  <1>15. ASSUME ClockCancels PROVE ClockVisitsOnce'
    BY <1>15 DEF ClockCancels, Cancel
  <1>16. ASSUME ClockEnds PROVE ClockVisitsOnce'
    BY <1>16 DEF ClockEnds, ClockIdle
  <1>17. ASSUME RaceKills PROVE ClockVisitsOnce'
    BY <1>17 DEF RaceKills
  <1>18. CASE UNCHANGED vars
    BY <1>18 DEF vars
  <1> QED
    BY <1>1, <1>2, <1>3, <1>4, <1>5, <1>6, <1>7, <1>8, <1>9, <1>10, <1>11,
       <1>12, <1>13, <1>14, <1>15, <1>16, <1>17, <1>18
       DEF Next, Writer, Relay, ClockThread

\* At most one push_back() between empty() and async_wait().
LEMMA ArmingStep == RoomInv /\ [Next]_vars => OnePushWhileArming'
  <1> SUFFICES ASSUME RoomInv, [Next]_vars PROVE OnePushWhileArming'
    OBVIOUS
  <1> USE SessionAssumption, MessageAssumption DEF RoomInv, TypeOK, SleepersAreOpen, RelayIsAlone, ClockVisitsOnce, OnePushWhileArming, ClockRecord, ClockStage, sessionVars, writerVars
  <1>1. ASSUME NEW s \in Session, Accept(s) PROVE OnePushWhileArming'
    <2>1. /\ socket[s] = "none"
          /\ writer' = [writer EXCEPT ![s] = "woken"]
          /\ write_msgs_' = write_msgs_
      BY <1>1 DEF Accept
    <2> QED
      BY <1>1, <2>1, AcceptInPass
  <1>2. ASSUME NEW s \in Session, NEW m \in Message, ReaderGetsLine(s, m) PROVE OnePushWhileArming'
    BY <1>2 DEF ReaderGetsLine, IoIdle
  <1>3. ASSUME NEW s \in Session, ReaderFails(s) PROVE OnePushWhileArming'
    BY <1>3 DEF ReaderFails, Stop, Cancel, Iterating
  <1>4. ASSUME NEW s \in Session, WriterResumes(s) PROVE OnePushWhileArming'
    BY <1>4 DEF WriterResumes, EnterLoop, LoopHead, IoIdle
  <1>5. ASSUME NEW s \in Session, WriterWaits(s) PROVE OnePushWhileArming'
    BY <1>5 DEF WriterWaits
  <1>6. ASSUME NEW s \in Session, BodyWritten(s) PROVE OnePushWhileArming'
    BY <1>6 DEF BodyWritten
  <1>7. ASSUME NEW s \in Session, NewlineWritten(s) PROVE OnePushWhileArming'
    BY <1>7 DEF NewlineWritten, EnterLoop, LoopHead, TouchQueue, IoIdle
  <1>8. ASSUME NEW s \in Session, WriteFails(s) PROVE OnePushWhileArming'
    BY <1>8 DEF WriteFails, Stop, Iterating
  <1>9. ASSUME ListenerUnwound PROVE OnePushWhileArming'
    BY <1>9 DEF ListenerUnwound
  <1>10. ASSUME NEW s \in Session, RelayTo(s) PROVE OnePushWhileArming'
    BY <1>10 DEF RelayTo, Cancel, TouchQueue
  <1>11. ASSUME RelayEnds PROVE OnePushWhileArming'
    BY <1>11 DEF RelayEnds, RelayIdle
  <1>12. ASSUME NEW m \in Message, ClockBroadcasts(m) PROVE OnePushWhileArming'
    BY <1>12 DEF ClockBroadcasts, ClockIdle, BarOutlastsArming
  <1>13. ASSUME NEW s \in Session, ClockReaches(s) PROVE OnePushWhileArming'
    BY <1>13 DEF ClockReaches
  <1>14. ASSUME ClockPushes PROVE OnePushWhileArming'
    <2> DEFINE q == write_msgs_[clock.at]
    <2>1. /\ clock.at \in Session /\ clock.msg \in Message /\ q \in Seq(Message)
          /\ clock.at \notin clock.todo
          /\ clock'.stage = "cancel" /\ clock'.todo = clock.todo
          /\ writer' = writer
      BY <1>14 DEF ClockPushes
    <2>2. /\ Len(Append(q, clock.msg)) = Len(q) + 1
          /\ (q = <<>>) <=> (Len(q) = 0)
      BY <2>1, PushBack, EmptyQueue
    <2>3. writer[clock.at] = "arming" => q = <<>>
      BY <1>14, <2>1 DEF ClockPushes
    <2>4. CASE write_msgs_' = write_msgs_
      BY <1>14, <2>1, <2>4 DEF ClockPushes
    <2>5. CASE write_msgs_' = [write_msgs_ EXCEPT ![clock.at] = Append(q, clock.msg)]
      BY <1>14, <2>1, <2>2, <2>3, <2>5 DEF ClockPushes
    <2> QED
      BY <1>14, <2>4, <2>5 DEF ClockPushes
  <1>15. ASSUME ClockCancels PROVE OnePushWhileArming'
    BY <1>15 DEF ClockCancels, Cancel
  <1>16. ASSUME ClockEnds PROVE OnePushWhileArming'
    BY <1>16 DEF ClockEnds, ClockIdle
  <1>17. ASSUME RaceKills PROVE OnePushWhileArming'
    BY <1>17 DEF RaceKills
  <1>18. CASE UNCHANGED vars
    BY <1>18 DEF vars
  <1> QED
    BY <1>1, <1>2, <1>3, <1>4, <1>5, <1>6, <1>7, <1>8, <1>9, <1>10, <1>11,
       <1>12, <1>13, <1>14, <1>15, <1>16, <1>17, <1>18
       DEF Next, Writer, Relay, ClockThread

\* What a sleeping writer can be late with.
LEMMA LateStep == RoomInv /\ [Next]_vars => LateByOneBar'
  <1> SUFFICES ASSUME RoomInv, [Next]_vars PROVE LateByOneBar'
    OBVIOUS
  <1> USE SessionAssumption, MessageAssumption DEF RoomInv, TypeOK, OnePushWhileArming, LateByOneBar, RelayIsAlone, ClockRecord, ClockStage, sessionVars, writerVars
  <1>1. ASSUME NEW s \in Session, Accept(s) PROVE LateByOneBar'
    BY <1>1 DEF Accept, Iterating
  <1>2. ASSUME NEW s \in Session, NEW m \in Message, ReaderGetsLine(s, m) PROVE LateByOneBar'
    BY <1>2 DEF ReaderGetsLine, IoIdle
  <1>3. ASSUME NEW s \in Session, ReaderFails(s) PROVE LateByOneBar'
    BY <1>3 DEF ReaderFails, Stop, Cancel, Iterating
  <1>4. ASSUME NEW s \in Session, WriterResumes(s) PROVE LateByOneBar'
    BY <1>4 DEF WriterResumes, EnterLoop, LoopHead, IoIdle
  <1>5. ASSUME NEW s \in Session, WriterWaits(s) PROVE LateByOneBar'
    <2>1. /\ write_msgs_' = write_msgs_ /\ clock' = clock
          /\ writer[s] = "arming"
          /\ \A u \in Session \ {s} : writer'[u] = writer[u]
      BY <1>5 DEF WriterWaits
    <2>2. write_msgs_[s] = <<>> \/ Len(write_msgs_[s]) = 1
      BY <2>1
    <2>3. Len(write_msgs_[s]) <= 1
      BY ONLY <2>2, ShortQueue
    <2>4. \A u \in Session : write_msgs_'[u] = write_msgs_[u]
      BY <2>1
    <2> QED
      BY <2>1, <2>3, <2>4
  <1>6. ASSUME NEW s \in Session, BodyWritten(s) PROVE LateByOneBar'
    BY <1>6 DEF BodyWritten
  <1>7. ASSUME NEW s \in Session, NewlineWritten(s) PROVE LateByOneBar'
    BY <1>7 DEF NewlineWritten, EnterLoop, LoopHead, TouchQueue, IoIdle
  <1>8. ASSUME NEW s \in Session, WriteFails(s) PROVE LateByOneBar'
    BY <1>8 DEF WriteFails, Stop, Iterating
  <1>9. ASSUME ListenerUnwound PROVE LateByOneBar'
    BY <1>9 DEF ListenerUnwound
  <1>10. ASSUME NEW s \in Session, RelayTo(s) PROVE LateByOneBar'
    BY <1>10, PushBack, EmptyQueue DEF RelayTo, Cancel, TouchQueue
  <1>11. ASSUME RelayEnds PROVE LateByOneBar'
    BY <1>11 DEF RelayEnds, RelayIdle
  <1>12. ASSUME NEW m \in Message, ClockBroadcasts(m) PROVE LateByOneBar'
    BY <1>12 DEF ClockBroadcasts, ClockIdle, BarOutlastsArming
  <1>13. ASSUME NEW s \in Session, ClockReaches(s) PROVE LateByOneBar'
    BY <1>13 DEF ClockReaches
  <1>14. ASSUME ClockPushes PROVE LateByOneBar'
    <2> DEFINE q == write_msgs_[clock.at]
    <2>1. /\ clock.at \in Session /\ clock.msg \in Message /\ q \in Seq(Message)
          /\ clock.stage = "push"
          /\ clock'.stage = "cancel" /\ clock'.at = clock.at
          /\ writer' = writer
      BY <1>14 DEF ClockPushes
    <2>2. Len(Append(q, clock.msg)) = Len(q) + 1 /\ Len(q) \in Nat
      BY <2>1, PushBack, EmptyQueue
    <2>3. \A u \in Session : writer[u] = "waiting" => Len(write_msgs_[u]) <= 1
      BY <2>1
    <2>4. CASE write_msgs_' = write_msgs_
      BY <2>1, <2>3, <2>4
    <2>5. CASE write_msgs_' = [write_msgs_ EXCEPT ![clock.at] = Append(q, clock.msg)]
      <3>1. ASSUME writer[clock.at] = "waiting"
            PROVE  Len(write_msgs_'[clock.at]) <= 1 \/ Len(write_msgs_'[clock.at]) = 2
        BY <3>1, <2>1, <2>2, <2>3, <2>5
      <3> QED
        BY <2>1, <2>3, <2>5, <3>1
    <2> QED
      BY <1>14, <2>4, <2>5 DEF ClockPushes
  <1>15. ASSUME ClockCancels PROVE LateByOneBar'
    BY <1>15 DEF ClockCancels, Cancel
  <1>16. ASSUME ClockEnds PROVE LateByOneBar'
    BY <1>16 DEF ClockEnds, ClockIdle
  <1>17. ASSUME RaceKills PROVE LateByOneBar'
    BY <1>17 DEF RaceKills
  <1>18. CASE UNCHANGED vars
    BY <1>18 DEF vars
  <1> QED
    BY <1>1, <1>2, <1>3, <1>4, <1>5, <1>6, <1>7, <1>8, <1>9, <1>10, <1>11,
       <1>12, <1>13, <1>14, <1>15, <1>16, <1>17, <1>18
       DEF Next, Writer, Relay, ClockThread

\* RoomInv is an invariant of the room.
THEOREM RoomInvariant == Spec => []RoomInv
  <1>1. RoomInv /\ [Next]_vars => RoomInv'
    BY TypeStep, FrontStep, SeatStep, SleeperStep, RelayStep, VisitStep,
       ArmingStep, LateStep DEF RoomInv
  <1> QED
    BY RoomInit, <1>1, PTL DEF Spec

-----------------------------------------------------------------------------
(* What follows for the room                                               *)

\* Every variable keeps its type, whatever the two threads do to each other.
THEOREM TypeCorrect == Spec => []TypeOK
  BY RoomInvariant, PTL DEF RoomInv

\* The room seats exactly the sessions with an open socket (join, leave, stop).
THEOREM SeatsAreOpenSockets == Spec => []RoomIsOpenSockets
  BY RoomInvariant, PTL DEF RoomInv

\* pop_front() removes the message whose two writes have just completed.
THEOREM FrontIsTheWrittenOne == Spec => []WriterHoldsFront
  BY RoomInvariant, PTL DEF RoomInv

\* No writer sleeps on the timer of a session that stop() has closed.
THEOREM SleepersHaveOpenSockets == Spec => []NoSleepAfterClose
  <1>1. RoomInv => NoSleepAfterClose
    BY DEF RoomInv, SleepersAreOpen, NoSleepAfterClose
  <1> QED
    BY RoomInvariant, <1>1, PTL

\* A cancel_one() that comes too early leaves one message waiting, not more.
THEOREM LostWakeupCostsOneMessage == Spec => []LateByOneBar
  BY RoomInvariant, PTL DEF RoomInv

=============================================================================
