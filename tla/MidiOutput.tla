----------------------------- MODULE MidiOutput -----------------------------
(***************************************************************************)
(* MidiOutAlsa::sendMessage() of midi/RtMidi.cpp as the client's two       *)
(* threads call it, with no lock, on the one RtMidiOut of midi_cue: the    *)
(* spooler with the transport commands, the clock sender with ticks.  A    *)
(* call copies its message into the shared data->buffer, feeds the buffer  *)
(* to the shared coder byte by byte, and sends the event that came out.    *)
(***************************************************************************)
EXTENDS Integers, Sequences

\* The bytes: the commands' status bytes, a data byte, and what malloc() left.
Realtime == {"CLOCK", "START", "CONTINUE", "STOP"}
Status == Realtime \cup {"SONG_POS"}
Byte == Status \cup {"DATA", "JUNK"}
NoEvent == "none"

\* What each thread sends.  The server's SONG_POS has one data byte, not two.
Thread == {"spooler", "clock"}
Sends == [spooler |-> {<<"START">>, <<"CONTINUE">>, <<"STOP">>, <<"SONG_POS", "DATA">>},
          clock |-> {<<"CLOCK">>}]
SentMessage == Sends.spooler \cup Sends.clock
Other(t) == IF t = "spooler" THEN "clock" ELSE "spooler"

VARIABLES
  buffer,  \* data->buffer
  coder,   \* data->coder: the data bytes it still expects for a SONG_POS
  call     \* each thread's call: pc, message, index, event, and the messages
           \* of the calls that have overlapped it

outVars == <<buffer, coder, call>>

Idle == [pc |-> "idle", msg |-> <<>>, i |-> 0, ev |-> NoEvent, met |-> {}]

Init ==
  /\ buffer = [i \in 1 .. 2 |-> "JUNK"]
  /\ coder = 0
  /\ call = [t \in Thread |-> Idle]

Busy(t) == call[t].pc # "idle"

SendCalled(t, m) ==
  /\ ~Busy(t)
  /\ call' = [u \in Thread |->
       IF u = t THEN [pc |-> "copy", msg |-> m, i |-> 1, ev |-> NoEvent,
                      met |-> IF Busy(Other(t)) THEN {call[Other(t)].msg} ELSE {}]
       ELSE IF Busy(u) THEN [call[u] EXCEPT !.met = @ \cup {m}]
       ELSE call[u]]
  /\ UNCHANGED <<buffer, coder>>

\* Mutant: the loop stops one byte early.
SendCopiesShort(t) ==
  /\ call[t].pc = "copy"
  /\ LET c == call[t] IN
     /\ buffer' = IF c.i < Len(c.msg) THEN [buffer EXCEPT ![c.i] = c.msg[c.i]] ELSE buffer
     /\ call' = [call EXCEPT ![t] = IF c.i < Len(c.msg) THEN [c EXCEPT !.i = @ + 1]
                                    ELSE [c EXCEPT !.pc = "encode", !.i = 1]]
  /\ UNCHANGED coder

\* One byte into the buffer.
SendCopies(t) ==
  /\ call[t].pc = "copy"
  /\ LET c == call[t] IN
     /\ buffer' = [buffer EXCEPT ![c.i] = c.msg[c.i]]
     /\ call' = [call EXCEPT ![t] = IF c.i < Len(c.msg) THEN [c EXCEPT !.i = @ + 1]
                                    ELSE [c EXCEPT !.pc = "encode", !.i = 1]]
  /\ UNCHANGED coder

(***************************************************************************)
(* snd_midi_event_encode_byte(): a realtime byte is an event by itself and *)
(* leaves a message under way alone; SONG_POS waits for two data bytes.    *)
(***************************************************************************)
CoderAfter(b) == CASE b = "SONG_POS" -> 2
                   [] b = "DATA" /\ coder > 0 -> coder - 1
                   [] OTHER -> coder
EventOf(b) == CASE b \in Realtime -> b
                [] b = "DATA" /\ coder = 1 -> "SONG_POS"
                [] OTHER -> NoEvent

(***************************************************************************)
(* One byte of the buffer into the coder.  When an event is complete       *)
(* before the last byte the call warns and sends nothing; when none is     *)
(* complete after it the call goes on with an empty event.                 *)
(***************************************************************************)
SendEncodes(t) ==
  /\ call[t].pc = "encode"
  /\ LET c == call[t]
         b == buffer[c.i]
         last == c.i = Len(c.msg)
     IN /\ coder' = CoderAfter(b)
        /\ call' = [call EXCEPT ![t] =
             IF last THEN [c EXCEPT !.pc = "output", !.ev = EventOf(b)]
             ELSE IF EventOf(b) # NoEvent THEN Idle
             ELSE [c EXCEPT !.i = @ + 1]]
  /\ UNCHANGED buffer

\* The event goes to the sequencer, which ignores an empty one.
SendOutputs(t) ==
  /\ call[t].pc = "output"
  /\ call' = [call EXCEPT ![t] = Idle]
  /\ UNCHANGED <<buffer, coder>>

Next == \E t \in Thread :
  \/ \E m \in Sends[t] : SendCalled(t, m)
  \/ SendCopies(t) \/ SendEncodes(t) \/ SendOutputs(t)

Spec == Init /\ [][Next]_outVars

-----------------------------------------------------------------------------
(* Properties                                                              *)

\* The variables have their types.
TypeOK ==
  /\ buffer \in [1 .. 2 -> Byte]
  /\ coder \in 0 .. 2
  /\ call \in [Thread -> [pc : {"idle", "copy", "encode", "output"},
                          msg : SentMessage \cup {<<>>}, i : 0 .. 2,
                          ev : Status \cup {NoEvent}, met : SUBSET SentMessage]]

\* What a message becomes when nothing interferes.
Meant(m) == IF m[1] \in Realtime THEN m[1] ELSE NoEvent

(***************************************************************************)
(* A call that no other overlaps sends exactly its message, whatever       *)
(* earlier calls left in the buffer and the coder; one that others overlap *)
(* may send theirs in its place (a START is then lost, a tick sent twice)  *)
(* but no event that no thread meant to send, and never a SONG_POS.        *)
(***************************************************************************)
SendsItsOwnOrMet ==
  \A t \in Thread : call[t].pc = "output" =>
    call[t].ev \in {Meant(m) : m \in {call[t].msg} \cup call[t].met}

=============================================================================
