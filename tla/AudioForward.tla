---------------------------- MODULE AudioForward ----------------------------
(***************************************************************************)
(* The server's audio (audio/audio_server_socket.hpp).  Its one thread     *)
(* reads buffers of the mixed receiver and writes each to the first of     *)
(* senders, a vector to which the io thread adds a roc sender for every    *)
(* client_session it makes, with no lock.  A session that ends takes none  *)
(* out: stop() has no call for it, so that a client may leave without a    *)
(* step here.                                                              *)
(***************************************************************************)
EXTENDS Integers, Sequences

CONSTANTS
  Client,       \* the clients that may join
  Listener,     \* the client whose playback is followed
  MaxJoins,     \* bound: sessions made
  BufferFrames  \* config.buffer_size, in frames

\* The sender of a client whose roc_sender_open() has failed.
Null == "null"

VARIABLES
  alive,      \* FALSE once the race on senders has killed the server
  senders,    \* the clients the roc senders send to
  forwarder,  \* the audio thread: pc, its buffer, whether the vector it looked
              \* into has been freed since
  up, down    \* the frames on their way to the server, and to Listener

forwardVars == <<alive, senders, forwarder, up, down>>

Waiting == [pc |-> "read", buffer |-> <<>>, freed |-> FALSE]

Init ==
  /\ alive = TRUE
  /\ senders = <<>>
  /\ forwarder = Waiting
  /\ down = <<>>

\* push_back() moves the vector when its size is its capacity, 1, 2, 4, ...
Moves(n) == n = 0 \/ \E k \in 0 .. n : n = 2 ^ k

(***************************************************************************)
(* add_client_transmission(), of a session's constructor: an error is      *)
(* logged, and the null sender pushed all the same.                        *)
(***************************************************************************)
AddClientTransmission(c) ==
  /\ alive /\ Len(senders) < MaxJoins
  /\ \E s \in {c, Null} : senders' = Append(senders, s)
  /\ forwarder' = [forwarder EXCEPT
       !.freed = @ \/ (forwarder.pc = "first" /\ Moves(Len(senders)))]
  /\ UNCHANGED <<alive, up, down>>

\* roc_receiver_read() returns a full buffer.  (When it fails the thread ends: it
\* takes no further step.)
ForwarderReads ==
  /\ alive /\ forwarder.pc = "read" /\ Len(up) >= BufferFrames
  /\ forwarder' = [Waiting EXCEPT !.pc = "test", !.buffer = SubSeq(up, 1, BufferFrames)]
  /\ up' = SubSeq(up, BufferFrames + 1, Len(up))
  /\ UNCHANGED <<alive, senders, down>>

\* senders.empty(), and the address of its first element.
ForwarderLooks ==
  /\ alive /\ forwarder.pc = "test"
  /\ forwarder' = IF senders = <<>> THEN Waiting ELSE [forwarder EXCEPT !.pc = "first"]
  /\ UNCHANGED <<alive, senders, up, down>>

\* roc_sender_write() to that element; with a null sender it only fails.
ForwarderWrites ==
  /\ alive /\ forwarder.pc = "first"
  /\ down' = IF senders[1] = Listener THEN down \o forwarder.buffer ELSE down
  /\ forwarder' = Waiting
  /\ UNCHANGED <<alive, senders, up>>

\* The element it looks up is in storage that push_back() has freed.
RaceKills ==
  /\ alive /\ forwarder.freed
  /\ alive' = FALSE
  /\ forwarder' = Waiting
  /\ UNCHANGED <<senders, up, down>>

Next ==
  \/ \E c \in Client : AddClientTransmission(c)
  \/ ForwarderReads \/ ForwarderLooks \/ ForwarderWrites \/ RaceKills

-----------------------------------------------------------------------------
(* Properties                                                              *)

\* The variables have their types.
TypeOK ==
  /\ alive \in BOOLEAN
  /\ senders \in Seq(Client \cup {Null})
  /\ Len(senders) <= MaxJoins
  /\ forwarder \in [pc : {"read", "test", "first"}, buffer : Seq(Nat),
                    freed : BOOLEAN]
  /\ down \in Seq(Nat)

(***************************************************************************)
(* README.md:14: "audio output of all users is send to the server, and     *)
(* returned to the audio input device of all clients".  Whoever Listener   *)
(* is: once its sender has opened it is sent every buffer.                 *)
(***************************************************************************)
ReturnedToAll ==
  [][ForwarderWrites /\ (\E i \in DOMAIN senders : senders[i] = Listener)
       => down' = down \o forwarder.buffer]_forwardVars

=============================================================================
