------------------------------ MODULE MidiPool ------------------------------
(***************************************************************************)
(* The server's midi_clock() (server/server.cpp) and the clients that play *)
(* to it: the loop of bars, the broadcasts it makes, the TCP connection to *)
(* each client, and what a client makes of a broadcast that comes late.    *)
(*                                                                         *)
(* The room is taken as a single step here (module SessionRoom has its     *)
(* threads), the client's MIDI side as well (module MidiCue).  Time is     *)
(* discrete: TicksPerBar is 96 SLEEP(tick_interval), TicksPerSecond is the *)
(* grain of get_posix_timestamp(), by which a client compares              *)
(* exec_timestamp with its own clock, which is taken to be the server's.   *)
(* A message carries "life", the seconds until it is stale, instead of the *)
(* timestamp, so that time need not be bounded.                            *)
(***************************************************************************)
EXTENDS Integers, Sequences

CONSTANTS
  Client,
  loop_length,     \* server_config::loop_length, in bars
  MidiBuffer,      \* server_config::midi_buffer, in seconds
  TicksPerBar,
  TicksPerSecond,
  Oversleep,       \* bound: ticks by which a bar of usleep()s is late
  MaxLink          \* bound: messages in a connection when a broadcast is made

ASSUME LoopAssumption ==
  /\ loop_length \in Nat \ {0}
  /\ MidiBuffer \in Nat
  /\ TicksPerBar \in Nat \ {0} /\ TicksPerSecond \in Nat \ {0}
  /\ Oversleep \in Nat /\ MaxLink \in Nat \ {0}

VARIABLES
  pc,         \* midi_clock(): "start", "head" of its loop, or asleep for a bar
  four_bars,  \* bars since the last SONG_POS
  slept,      \* ticks of the current bar
  subsecond,  \* ticks of the current second
  sinceOne,   \* ticks since the loop began, up to TicksPerSecond
  link,       \* broadcasts on their way to each client
  client,     \* "out", "silent", or playing since a START or since a SONG_POS
  offset,     \* sinceOne when the client last began to play
  prompt      \* whether the network is so fast that each message is read alone,
              \* and in the tick it was sent

vars == <<pc, four_bars, slept, subsecond, sinceOne, link, client, offset, prompt>>
clockVars == <<pc, four_bars, slept>>
clientVars == <<client, offset>>

Command == {"START", "CONTINUE", "SONG_POS"}
Broadcast == [cmd : Command, life : -1 .. MidiBuffer]

Init ==
  /\ pc = "start" /\ four_bars = 0 /\ slept = 0
  /\ subsecond \in 0 .. TicksPerSecond - 1
  /\ sinceOne = 0
  /\ link = [c \in Client |-> <<>>]
  /\ client = [c \in Client |-> "out"]
  /\ offset = [c \in Client |-> 0]
  /\ prompt \in BOOLEAN

-----------------------------------------------------------------------------
(* midi_clock()                                                            *)

Joined == {c \in Client : client[c] # "out"}

\* room->deliver(): the message is sent to everyone in the room.
Deliver(cmd, life) ==
  link' = [c \in Client |-> IF c \in Joined
                            THEN Append(link[c], [cmd |-> cmd, life |-> life])
                            ELSE link[c]]

LinksHaveRoom == \A c \in Client : Len(link[c]) < MaxLink

\* send_start_message(), once, when listener() has started the thread.
ClockStarts ==
  /\ pc = "start" /\ LinksHaveRoom
  /\ Deliver("START", MidiBuffer)
  /\ pc' = "head" /\ sinceOne' = 0
  /\ UNCHANGED <<four_bars, slept, subsecond, clientVars>>

\* Mutant: four_bars is not reset when the loop starts over.
ClockLoopsOnce ==
  /\ pc = "head" /\ four_bars = loop_length /\ LinksHaveRoom
  /\ Deliver("SONG_POS", 0)
  /\ pc' = "bar" /\ slept' = 0 /\ sinceOne' = 0
  /\ UNCHANGED <<four_bars, subsecond, clientVars>>

\* The loop is over: SONG_POS, to be executed now, and four_bars starts again.
ClockLoops ==
  /\ pc = "head" /\ four_bars = loop_length /\ LinksHaveRoom
  /\ Deliver("SONG_POS", 0)
  /\ four_bars' = 0
  /\ pc' = "bar" /\ slept' = 0 /\ sinceOne' = 0
  /\ UNCHANGED <<subsecond, clientVars>>

\* Any other bar: CONTINUE, but for the first bar of the loop.
ClockContinues ==
  /\ pc = "head" /\ four_bars # loop_length /\ LinksHaveRoom
  /\ IF four_bars > 0 THEN Deliver("CONTINUE", MidiBuffer) ELSE UNCHANGED link
  /\ pc' = "bar" /\ slept' = 0
  /\ UNCHANGED <<four_bars, subsecond, sinceOne, clientVars>>

\* 96 SLEEP(clock_rate) have passed.
ClockBarEnds ==
  /\ pc = "bar" /\ slept >= TicksPerBar
  /\ four_bars' = four_bars + 1
  /\ pc' = "head"
  /\ UNCHANGED <<slept, subsecond, sinceOne, link, clientVars>>

\* A second later a message has a second less to live.
Aged(m) == [m EXCEPT !.life = IF @ >= 0 THEN @ - 1 ELSE -1]

(***************************************************************************)
(* Time passes: never while midi_clock() computes, and if prompt never     *)
(* while a message is unread.  A second that ends ages every message.      *)
(***************************************************************************)
Tick ==
  /\ pc = "bar" => slept < TicksPerBar + Oversleep
  /\ pc # "head"
  /\ prompt => \A c \in Client : link[c] = <<>>
  /\ slept' = IF pc = "bar" THEN slept + 1 ELSE slept
  /\ sinceOne' = IF sinceOne < TicksPerSecond THEN sinceOne + 1 ELSE sinceOne
  /\ IF subsecond + 1 < TicksPerSecond
     THEN subsecond' = subsecond + 1 /\ UNCHANGED link
     ELSE /\ subsecond' = 0
          /\ link' = [c \in Client |-> [i \in DOMAIN link[c] |-> Aged(link[c][i])]]
  /\ UNCHANGED <<pc, four_bars, clientVars, prompt>>

-----------------------------------------------------------------------------
(* The clients                                                             *)

\* A client's connection is accepted and joins the room.
Join(c) ==
  /\ client[c] = "out"
  /\ client' = [client EXCEPT ![c] = "silent"]
  /\ UNCHANGED <<clockVars, subsecond, sinceOne, link, offset, prompt>>

\* Mutant: the spooler sends a message whatever its timestamp says.
PlayAnyway(c, m) ==
  IF m.cmd # "CONTINUE"
  THEN /\ client' = [client EXCEPT ![c] = IF m.cmd = "START" THEN "started" ELSE "jumped"]
       /\ offset' = [offset EXCEPT ![c] = sinceOne]
  ELSE UNCHANGED clientVars

\* Mutant: the spooler's comparison is strict, so "now" is already too late.
PlayAheadOnly(c, m) ==
  IF m.life > 0 /\ m.cmd # "CONTINUE"
  THEN /\ client' = [client EXCEPT ![c] = IF m.cmd = "START" THEN "started" ELSE "jumped"]
       /\ offset' = [offset EXCEPT ![c] = sinceOne]
  ELSE UNCHANGED clientVars

\* What the spooler makes of a message: a stale one is never sent, START and
\* SONG_POS begin to play, and CONTINUE changes nothing for one who is silent.
Play(c, m) ==
  IF m.life >= 0 /\ m.cmd # "CONTINUE"
  THEN /\ client' = [client EXCEPT ![c] = IF m.cmd = "START" THEN "started" ELSE "jumped"]
       /\ offset' = [offset EXCEPT ![c] = sinceOne]
  ELSE UNCHANGED clientVars

(***************************************************************************)
(* reader(): async_read_until() returns at the first newline and the rest  *)
(* of its buffer goes out of scope with read_msg.  The messages that had   *)
(* arrived behind the first are lost, wholly, or torn, so that the next    *)
(* line does not parse.  That is how the first may be lost as well, and by *)
(* a NUL that the read before left (module LineWire); if prompt, where     *)
(* a message is read whole and alone, it is not.                           *)
(***************************************************************************)
ClientReads(c) ==
  /\ link[c] # <<>>
  /\ Play(c, Head(link[c])) \/ (~prompt /\ UNCHANGED clientVars)
  /\ \E n \in 1 .. Len(link[c]) :
       link' = [link EXCEPT ![c] = SubSeq(@, n + 1, Len(@))]
  /\ UNCHANGED <<clockVars, subsecond, sinceOne, prompt>>

-----------------------------------------------------------------------------
Clock ==
  /\ ClockStarts \/ ClockLoops \/ ClockContinues \/ ClockBarEnds
  /\ UNCHANGED prompt

Next == Clock \/ Tick \/ \E c \in Client : Join(c) \/ ClientReads(c)

Spec == Init /\ [][Next]_vars

\* Time goes on, midi_clock() never blocks, and what was sent is read.
FairSpec ==
  /\ Spec
  /\ WF_vars(Clock) /\ WF_vars(Tick)
  /\ \A c \in Client : WF_vars(ClientReads(c))

-----------------------------------------------------------------------------
(* Properties                                                              *)

\* The variables have their types; the loop has loop_length bars, no more.
TypeOK ==
  /\ pc \in {"start", "head", "bar"}
  /\ four_bars \in 0 .. loop_length
  /\ slept \in 0 .. TicksPerBar + Oversleep
  /\ subsecond \in 0 .. TicksPerSecond - 1
  /\ sinceOne \in 0 .. TicksPerSecond
  /\ link \in [Client -> Seq(Broadcast)]
  /\ \A c \in Client : Len(link[c]) <= MaxLink
  /\ client \in [Client -> {"out", "silent", "started", "jumped"}]
  /\ offset \in [Client -> 0 .. TicksPerSecond]
  /\ prompt \in BOOLEAN

(***************************************************************************)
(* A client that jumped to the start of the loop did so within a second of *)
(* the server's first beat: however long a SONG_POS was held up and        *)
(* whatever was lost around it, a client rather stays where it is than     *)
(* jump at the wrong bar.                                                  *)
(***************************************************************************)
JumpsOnTheOne ==
  \A c \in Client : client[c] = "jumped" => offset[c] < TicksPerSecond

(***************************************************************************)
(* Whoever joins plays: a client that missed START is started by SONG_POS  *)
(* when the loop starts over.  If prompt; otherwise a SONG_POS may be read *)
(* in the second after it was sent and is dropped, and each one may be.    *)
(***************************************************************************)
JoinersPlay ==
  \A c \in Client :
    prompt /\ client[c] = "silent" ~> client[c] \in {"started", "jumped"}

=============================================================================
