---------------------------- MODULE SessionRoom ----------------------------
(***************************************************************************)
(* The broadcast room of the server (server/server.cpp): session_room,     *)
(* client_session with its reader() and writer() coroutines, and the       *)
(* accepting loop of listener().                                           *)
(*                                                                         *)
(* Two threads act.  The io thread runs io_context::run(): every coroutine *)
(* runs on it, one at a time, from one co_await to the next.  The clock    *)
(* thread runs midi_clock(), which calls room->deliver() with no lock.     *)
(* Coroutines are atomic with respect to each other but not with respect   *)
(* to the clock thread, so a coroutine is split where the clock thread can *)
(* come in between: after write_msgs_.empty() and before                   *)
(* timer_.async_wait() (writer state "arming"), and between the elements   *)
(* of the loop of session_room::deliver().                                 *)
(*                                                                         *)
(* write_msgs_ and participants_ are shared without synchronisation.  The  *)
(* clock thread's push_back() is a window ("push"): when the io thread     *)
(* changes the same deque inside it, the pushed element may be kept, may   *)
(* be lost, or the process may die.  When the io thread changes            *)
(* participants_ while the clock thread iterates over it, the iteration    *)
(* may go on or the process may die.                                       *)
(***************************************************************************)
EXTENDS Naturals, Sequences, FiniteSets

CONSTANTS
  Session,    \* the client_session objects, one per accepted connection
  Message,    \* the JSON messages of broadcasts, clock's and clients'
  NoSession,
  NoMessage,
  MaxQueue    \* bound: no broadcast starts when a write_msgs_ holds that many

ASSUME SessionAssumption  == NoSession \notin Session
ASSUME MessageAssumption  == NoMessage \notin Message
ASSUME MaxQueueAssumption == MaxQueue \in Nat \ {0}

VARIABLES
  up,             \* FALSE once std::terminate or a fault has ended the server
  socket,         \* socket_ of each session
  participants_,  \* session_room::participants_
  write_msgs_,    \* client_session::write_msgs_ of each session
  reader,         \* where the reader() coroutine of each session is
  writer,         \* where the writer() coroutine of each session is
  inFlight,       \* the message whose dump() the pending async_write sends
  relay,          \* room_.deliver() called by a reader, on the io thread
  clock           \* room->deliver() called by midi_clock(), on its own thread

sessionVars == <<socket, participants_, reader>>
writerVars  == <<write_msgs_, writer, inFlight>>
vars == <<up, sessionVars, writerVars, relay, clock>>

SocketState == {"none", "open", "closed"}
ReaderState == {"none", "reading", "relaying", "done"}

(***************************************************************************)
(* writer(): "woken" is a resumption queued on the io thread, "arming" the *)
(* gap between empty() and async_wait(), "waiting" the wait on timer_,     *)
(* "body" and "newline" the two async_write()s of a message.               *)
(***************************************************************************)
WriterState == {"none", "woken", "arming", "waiting", "body", "newline", "done"}
ClockStage  == {"sleep", "next", "push", "cancel"}

RelayIdle == [by |-> NoSession, msg |-> NoMessage, todo |-> {}]
ClockIdle == [stage |-> "sleep", msg |-> NoMessage, at |-> NoSession,
              todo |-> {}, setRaced |-> FALSE, queueRaced |-> FALSE]

Init ==
  /\ up = TRUE
  /\ socket = [s \in Session |-> "none"]
  /\ participants_ = {}
  /\ write_msgs_ = [s \in Session |-> <<>>]
  /\ reader = [s \in Session |-> "none"]
  /\ writer = [s \in Session |-> "none"]
  /\ inFlight = [s \in Session |-> NoMessage]
  /\ relay = RelayIdle
  /\ clock = ClockIdle

(***************************************************************************)
(* The io thread takes up another coroutine only when the one it runs has  *)
(* suspended: neither inside a relay nor between empty() and async_wait(). *)
(***************************************************************************)
IoIdle == relay.by = NoSession /\ \A s \in Session : writer[s] # "arming"

HasRoom == \A s \in participants_ : Len(write_msgs_[s]) < MaxQueue

(***************************************************************************)
(* The clock thread is inside its loop over participants_.                 *)
(***************************************************************************)
Iterating == clock.stage # "sleep"

\* The io thread changes write_msgs_ of s: a race inside the clock's push_back.
TouchQueue(s) ==
  clock' = IF clock.stage = "push" /\ clock.at = s
           THEN [clock EXCEPT !.queueRaced = TRUE] ELSE clock

\* timer_.cancel_one() and timer_.cancel(): a registered wait completes, and
\* when none is registered nothing happens and nothing is remembered.
Cancel(s, w) == IF w[s] = "waiting" THEN [w EXCEPT ![s] = "woken"] ELSE w

-----------------------------------------------------------------------------
(* listener(), client_session::start(), stop()                             *)

(***************************************************************************)
(* A connection is accepted: the session is constructed, joins the room    *)
(* and its two coroutines are posted.  A clock thread that iterates over   *)
(* the set may or may not come across the new element.                     *)
(***************************************************************************)
Accept(s) ==
  /\ up /\ IoIdle /\ socket[s] = "none"
  /\ socket' = [socket EXCEPT ![s] = "open"]
  /\ participants_' = participants_ \cup {s}
  /\ reader' = [reader EXCEPT ![s] = "reading"]
  /\ writer' = [writer EXCEPT ![s] = "woken"]
  /\ \/ ~Iterating /\ UNCHANGED clock
     \/ /\ Iterating
        /\ \E more \in {{}, {s}} :
             clock' = [clock EXCEPT !.setRaced = TRUE, !.todo = @ \cup more]
  /\ UNCHANGED <<up, write_msgs_, inFlight, relay>>

(***************************************************************************)
(* The frame of listener() is unwound: async_accept() or remote_endpoint() *)
(* throws, or a signal stops io_context and main() destroys it.  Either    *)
(* way the joinable midi_clock_thread is destroyed: std::terminate().      *)
(***************************************************************************)
ListenerUnwound ==
  /\ up /\ IoIdle
  /\ up' = FALSE
  /\ UNCHANGED <<sessionVars, writerVars, relay, clock>>

\* Mutant: the participant is never taken out of the room.
StopKeepsSeat(s) ==
  /\ participants_' = participants_
  /\ socket' = [socket EXCEPT ![s] = "closed"]
  /\ clock' = clock

\* client_session::stop() but for timer_.cancel(), which the callers apply to
\* the writer they leave behind.
Stop(s) ==
  /\ participants_' = participants_ \ {s}
  /\ socket' = [socket EXCEPT ![s] = "closed"]
  /\ clock' = IF Iterating /\ s \in participants_
              THEN [clock EXCEPT !.setRaced = TRUE, !.todo = @ \ {s}] ELSE clock

-----------------------------------------------------------------------------
(* client_session::reader()                                                *)

(***************************************************************************)
(* async_read_until() delivers exactly one line and it parses: the reader  *)
(* enters room_.deliver().  The read may have completed before a stop().   *)
(***************************************************************************)
ReaderGetsLine(s, m) ==
  /\ up /\ IoIdle /\ reader[s] = "reading" /\ HasRoom
  /\ reader' = [reader EXCEPT ![s] = "relaying"]
  /\ relay' = [by |-> s, msg |-> m, todo |-> participants_]
  /\ UNCHANGED <<up, socket, participants_, writerVars, clock>>

\* Mutant: deliver() on the io thread without cancel_one().
RelayToSilently(s) ==
  /\ up /\ s \in relay.todo
  /\ write_msgs_' = [write_msgs_ EXCEPT ![s] = Append(@, relay.msg)]
  /\ relay' = [relay EXCEPT !.todo = @ \ {s}]
  /\ TouchQueue(s)
  /\ UNCHANGED <<up, sessionVars, writer, inFlight>>

\* participant->deliver(msg) on the io thread: push_back, then cancel_one.
RelayTo(s) ==
  /\ up /\ s \in relay.todo
  /\ write_msgs_' = [write_msgs_ EXCEPT ![s] = Append(@, relay.msg)]
  /\ writer' = Cancel(s, writer)
  /\ relay' = [relay EXCEPT !.todo = @ \ {s}]
  /\ TouchQueue(s)
  /\ UNCHANGED <<up, sessionVars, inFlight>>

RelayEnds ==
  /\ up /\ relay.by # NoSession /\ relay.todo = {}
  /\ reader' = [reader EXCEPT ![relay.by] =
                  IF socket[relay.by] = "open" THEN "reading" ELSE "done"]
  /\ relay' = RelayIdle
  /\ UNCHANGED <<up, socket, participants_, writerVars, clock>>

\* Mutant: stop() without timer_.cancel().
ReaderFailsQuietly(s) ==
  /\ up /\ IoIdle /\ reader[s] = "reading"
  /\ Stop(s)
  /\ reader' = [reader EXCEPT ![s] = "done"]
  /\ UNCHANGED <<up, writerVars, relay>>

(***************************************************************************)
(* The read fails: end of file, a connection error, no newline in 2048     *)
(* bytes, or a buffer that is not a JSON text, because the read before it  *)
(* tore the line or left it a NUL (module LineWire); or stop() has closed  *)
(* the socket.  The handler calls stop() and the loop ends on is_open().   *)
(***************************************************************************)
ReaderFails(s) ==
  /\ up /\ IoIdle /\ reader[s] = "reading"
  /\ Stop(s)
  /\ writer' = Cancel(s, writer)
  /\ reader' = [reader EXCEPT ![s] = "done"]
  /\ UNCHANGED <<up, write_msgs_, inFlight, relay>>

-----------------------------------------------------------------------------
(* client_session::writer()                                                *)

\* Mutant: the loop does not ask whether the socket is still open.
LoopHeadForever(s, msgs) == IF msgs = <<>> THEN "arming" ELSE "body"

\* The head of the writer's loop: leave, prepare to wait, or begin a write.
LoopHead(s, msgs) ==
  IF socket[s] # "open" THEN "done"
  ELSE IF msgs = <<>> THEN "arming" ELSE "body"

EnterLoop(s, msgs) ==
  /\ writer' = [writer EXCEPT ![s] = LoopHead(s, msgs)]
  /\ inFlight' = [inFlight EXCEPT ![s] =
                    IF LoopHead(s, msgs) = "body" THEN Head(msgs) ELSE NoMessage]

WriterResumes(s) ==
  /\ up /\ IoIdle /\ writer[s] = "woken"
  /\ EnterLoop(s, write_msgs_[s])
  /\ UNCHANGED <<up, sessionVars, write_msgs_, relay, clock>>

\* timer_.async_wait() registers the wait and the coroutine suspends.
WriterWaits(s) ==
  /\ up /\ writer[s] = "arming"
  /\ writer' = [writer EXCEPT ![s] = "waiting"]
  /\ UNCHANGED <<up, sessionVars, write_msgs_, inFlight, relay, clock>>

\* Mutant: the message is popped when its body, not its newline, is written.
BodyWrittenPops(s) ==
  /\ up /\ IoIdle /\ writer[s] = "body"
  /\ writer' = [writer EXCEPT ![s] = "newline"]
  /\ write_msgs_' = [write_msgs_ EXCEPT ![s] = Tail(@)]
  /\ TouchQueue(s)
  /\ UNCHANGED <<up, sessionVars, inFlight, relay>>

\* The first async_write() completes; the newline is written next.
BodyWritten(s) ==
  /\ up /\ IoIdle /\ writer[s] = "body"
  /\ writer' = [writer EXCEPT ![s] = "newline"]
  /\ UNCHANGED <<up, sessionVars, write_msgs_, inFlight, relay, clock>>

NewlineWritten(s) ==
  /\ up /\ IoIdle /\ writer[s] = "newline"
  /\ write_msgs_' = [write_msgs_ EXCEPT ![s] = Tail(@)]
  /\ EnterLoop(s, Tail(write_msgs_[s]))
  /\ TouchQueue(s)
  /\ UNCHANGED <<up, sessionVars, relay>>

\* A write fails, or a stop() closed the socket under it: stop() and leave.
WriteFails(s) ==
  /\ up /\ IoIdle /\ writer[s] \in {"body", "newline"}
  /\ Stop(s)
  /\ writer' = [writer EXCEPT ![s] = "done"]
  /\ inFlight' = [inFlight EXCEPT ![s] = NoMessage]
  /\ UNCHANGED <<up, write_msgs_, reader, relay>>

-----------------------------------------------------------------------------
(* room->deliver() called by midi_clock() on the clock thread              *)

(***************************************************************************)
(* Two broadcasts are 96 SLEEP(clock_rate) apart, 2.4 s: a writer that was *)
(* between empty() and async_wait() when one was delivered to it has got   *)
(* to async_wait() before the next one starts.                             *)
(***************************************************************************)
BarOutlastsArming ==
  \A s \in Session : ~(writer[s] = "arming" /\ write_msgs_[s] # <<>>)

ClockBroadcasts(m) ==
  /\ up /\ clock.stage = "sleep" /\ HasRoom /\ BarOutlastsArming
  /\ clock' = [ClockIdle EXCEPT !.stage = "next", !.msg = m, !.todo = participants_]
  /\ UNCHANGED <<up, sessionVars, writerVars, relay>>

\* Mutant: the element reached is not the one delivered to.
ClockReachesNobody(s) ==
  /\ up /\ clock.stage = "next" /\ s \in clock.todo
  /\ clock' = [clock EXCEPT !.stage = "push", !.todo = @ \ {s}, !.queueRaced = FALSE]
  /\ UNCHANGED <<up, sessionVars, writerVars, relay>>

\* The iterator reaches s, copies the shared_ptr and enters deliver().
ClockReaches(s) ==
  /\ up /\ clock.stage = "next" /\ s \in clock.todo
  /\ clock' = [clock EXCEPT !.stage = "push", !.at = s, !.todo = @ \ {s},
                            !.queueRaced = FALSE]
  /\ UNCHANGED <<up, sessionVars, writerVars, relay>>

\* write_msgs_.push_back(msg) returns; in a race the element may be lost.
ClockPushes ==
  /\ up /\ clock.stage = "push"
  /\ \/ write_msgs_' = [write_msgs_ EXCEPT ![clock.at] = Append(@, clock.msg)]
     \/ clock.queueRaced /\ UNCHANGED write_msgs_
  /\ clock' = [clock EXCEPT !.stage = "cancel"]
  /\ UNCHANGED <<up, sessionVars, writer, inFlight, relay>>

\* Mutant: deliver() on the clock thread without cancel_one().
ClockSkipsCancel ==
  /\ up /\ clock.stage = "cancel"
  /\ clock' = [clock EXCEPT !.stage = "next"]
  /\ UNCHANGED <<up, sessionVars, writerVars, relay>>

\* timer_.cancel_one() from the clock thread.
ClockCancels ==
  /\ up /\ clock.stage = "cancel"
  /\ writer' = Cancel(clock.at, writer)
  /\ clock' = [clock EXCEPT !.stage = "next"]
  /\ UNCHANGED <<up, sessionVars, write_msgs_, inFlight, relay>>

ClockEnds ==
  /\ up /\ clock.stage = "next" /\ clock.todo = {}
  /\ clock' = ClockIdle
  /\ UNCHANGED <<up, sessionVars, writerVars, relay>>

\* A freed node of participants_ or a torn deque is used: the process dies.
RaceKills ==
  /\ up
  /\ \/ clock.stage = "next" /\ clock.setRaced
     \/ clock.stage = "push" /\ clock.queueRaced
  /\ up' = FALSE
  /\ UNCHANGED <<sessionVars, writerVars, relay, clock>>

-----------------------------------------------------------------------------
ClockThread ==
  \/ \E m \in Message : ClockBroadcasts(m)
  \/ \E s \in Session : ClockReaches(s)
  \/ ClockPushes
  \/ ClockCancels
  \/ ClockEnds

Relay == (\E s \in Session : RelayTo(s)) \/ RelayEnds

\* The steps of the coroutine writer(); at most one is enabled by its state.
Writer(s) ==
  \/ WriterResumes(s)
  \/ WriterWaits(s)
  \/ BodyWritten(s)
  \/ NewlineWritten(s)
  \/ WriteFails(s)

Next ==
  \/ \E s \in Session :
       \/ Accept(s)
       \/ \E m \in Message : ReaderGetsLine(s, m)
       \/ ReaderFails(s)
       \/ Writer(s)
  \/ ListenerUnwound
  \/ Relay
  \/ ClockThread
  \/ RaceKills

Spec == Init /\ [][Next]_vars

(***************************************************************************)
(* Fairness.  A relay that has begun goes on by the scheduling of the io   *)
(* thread.  The other steps of the io thread wait for their turn in the    *)
(* run queue of io_context, which is first in, first out, so a handler     *)
(* that is ready is run although IoIdle comes and goes: strong fairness.   *)
(* A pending async_write() completes or fails, which says that the peer    *)
(* does not stall its TCP connection for ever; a read need only complete   *)
(* once stop() has closed its socket.  The clock thread never waits for    *)
(* anyone; it is strongly fair because the guard HasRoom of its broadcasts *)
(* is this module's bound and no condition of the code.                    *)
(***************************************************************************)
Fairness ==
  /\ SF_vars(ClockThread)
  /\ WF_vars(Relay)
  /\ \A s \in Session :
       /\ SF_vars(Writer(s))
       /\ SF_vars(ReaderFails(s) /\ socket[s] = "closed")

FairSpec == Spec /\ Fairness

-----------------------------------------------------------------------------
(* Properties                                                              *)

RelayRecord == [by : Session \cup {NoSession}, msg : Message \cup {NoMessage},
                todo : SUBSET Session]
ClockRecord == [stage : ClockStage, msg : Message \cup {NoMessage},
                at : Session \cup {NoSession}, todo : SUBSET Session,
                setRaced : BOOLEAN, queueRaced : BOOLEAN]

\* The variables have their types; a deliver() in progress is a message for
\* a session.
TypeOK ==
  /\ up \in BOOLEAN
  /\ socket \in [Session -> SocketState]
  /\ participants_ \subseteq Session
  /\ write_msgs_ \in [Session -> Seq(Message)]
  /\ reader \in [Session -> ReaderState]
  /\ writer \in [Session -> WriterState]
  /\ inFlight \in [Session -> Message \cup {NoMessage}]
  /\ relay \in RelayRecord
  /\ relay.by # NoSession => relay.msg \in Message
  /\ clock \in ClockRecord
  /\ clock.stage # "sleep" => clock.msg \in Message
  /\ clock.stage \in {"push", "cancel"} => clock.at \in Session

(***************************************************************************)
(* The room seats exactly the sessions whose socket is open: whichever     *)
(* coroutine notices the end first, reader or writer, and however often    *)
(* stop() runs, no dead session keeps collecting messages in a write_msgs_ *)
(* nobody drains, and no live one is left out of a broadcast.              *)
(***************************************************************************)
RoomIsOpenSockets == participants_ = {s \in Session : socket[s] = "open"}

(***************************************************************************)
(* While the two async_write()s of a message run, and whatever both        *)
(* threads push meanwhile, the front of write_msgs_ is still the message   *)
(* being written, so pop_front() removes it, never an unsent one.          *)
(***************************************************************************)
WriterHoldsFront ==
  \A s \in Session :
    writer[s] \in {"body", "newline"} =>
      write_msgs_[s] # <<>> /\ inFlight[s] = Head(write_msgs_[s])

(***************************************************************************)
(* A writer never sleeps on its timer, which expires at time_point::max(), *)
(* once its socket is closed: it would never wake, and with it the session *)
(* and its socket would never be freed.                                    *)
(***************************************************************************)
NoSleepAfterClose ==
  \A s \in Session : writer[s] = "waiting" => socket[s] = "open"

(***************************************************************************)
(* cancel_one() is lost when the clock thread calls it between empty() and *)
(* async_wait().  The damage is one message: a sleeping writer never has   *)
(* more than one message queued, apart from the one the clock thread is    *)
(* about to wake it for.                                                   *)
(***************************************************************************)
LateByOneBar ==
  \A s \in Session :
    writer[s] = "waiting" =>
      \/ Len(write_msgs_[s]) <= 1
      \/ Len(write_msgs_[s]) = 2 /\ clock.stage = "cancel" /\ clock.at = s

(***************************************************************************)
(* A message in the write_msgs_ of a connected session does get its turn:  *)
(* the writer begins a write, even if only after the wake-up of the next   *)
(* broadcast, unless the session ends or the server dies.                  *)
(***************************************************************************)
BacklogDrains ==
  \A s \in Session :
    (socket[s] = "open" /\ write_msgs_[s] # <<>>) ~>
      (writer[s] \in {"body", "newline"} \/ socket[s] = "closed" \/ ~up)

(***************************************************************************)
(* A session that stop() has closed ends: both coroutines leave their      *)
(* loops, whichever of them called stop() and wherever the other one was,  *)
(* so that the last shared_ptr goes.                                       *)
(***************************************************************************)
ClosedSessionEnds ==
  \A s \in Session :
    socket[s] = "closed" ~> ((reader[s] = "done" /\ writer[s] = "done") \/ ~up)

(***************************************************************************)
(* What the broadcast is for: a message that was delivered to a session    *)
(* wakes its writer.  Nobody sleeps over a queued message except while the *)
(* clock thread is between push_back() and cancel_one().                   *)
(***************************************************************************)
NoSleepingBacklog ==
  \A s \in Session :
    writer[s] = "waiting" /\ write_msgs_[s] # <<>> =>
      clock.stage = "cancel" /\ clock.at = s

=============================================================================
