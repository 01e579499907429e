------------------------------ MODULE MidiCue ------------------------------
(***************************************************************************)
(* The client's MIDI side (midi/midi_cue.hpp and the reader() of           *)
(* client/client_connection.hpp).  Three threads share one midi_cue with   *)
(* no lock:                                                                *)
(*   - the io thread's reader() parses a broadcast, cues it and sleeps;    *)
(*   - the spooler, send_midi_messages(), scans midi_messages_, sends what *)
(*     it finds due and erases it;                                         *)
(*   - the clock sender, send_clock(), sends a tick while clock_rate # 0.  *)
(*                                                                         *)
(* A cued midi_message holds a pointer to message_bytes, a local of        *)
(* reader(): every cued message points to that one object of the coroutine *)
(* frame ("slot").  It holds the bytes of the latest message until the     *)
(* SLEEP(10) after cueing ends, and is a destroyed, empty vector after.    *)
(*                                                                         *)
(* push_back() on midi_messages_ is a window: when the spooler uses the    *)
(* vector inside it, or its reference cur_message after it, the element    *)
(* may be lost or the process may die.                                     *)
(***************************************************************************)
EXTENDS Integers, Sequences

CONSTANTS
  TickInterval,  \* server_config::tick_interval, the clock_rate of messages
  MidiBuffer,    \* server_config::midi_buffer, in seconds of exec_timestamp
  MaxDelay,      \* bound: seconds between sending and parsing a message
  MaxTime,       \* bound: the last second of get_posix_timestamp()
  MaxCued,       \* bound: reader() takes no message while that many are cued
  KeepsUp        \* whether SLEEP(10) always outlasts the spooler's next scan

ASSUME TickIntervalAssumption == TickInterval \in Nat \ {0}
ASSUME TimeAssumption ==
  MidiBuffer \in Nat /\ MaxDelay \in Nat /\ MaxTime \in Nat /\ MaxCued \in Nat
ASSUME KeepsUpAssumption == KeepsUp \in BOOLEAN

\* The commands midi_clock() broadcasts; no one ever sends the client a STOP.
Command == {"START", "CONTINUE", "SONG_POS"}
NoBytes == "none"

VARIABLES
  alive,           \* FALSE once a race has killed the client
  now,             \* get_posix_timestamp(), in seconds
  reader,          \* where reader() is
  slot,            \* its local message_bytes, which all cued messages point to
  midi_messages_,  \* the cued messages
  raced,           \* the spooler used midi_messages_ inside a push_back()
  spooler,         \* send_midi_messages(): pc, cur_timestamp, k, indices_to_erase
  ticker,          \* send_clock(): before its test, or committed to a tick
  clock_rate,
  port             \* the virtual MIDI port: what sendMessage() was given last

vars == <<alive, now, reader, slot, midi_messages_, raced, spooler, ticker,
          clock_rate, port>>
readerVars == <<reader, slot>>

SpoolerPc == {"sleep", "scan", "first", "sendFirst", "second", "sendSecond", "zero",
              "third", "zeroAgain", "sendThird", "stop", "start", "rate", "note", "erase"}

(***************************************************************************)
(* A midi_message: "cmd" is the command its bytes had when it was cued,    *)
(* which the program does not keep: it reads slot.                         *)
(***************************************************************************)
MidiMessage == [cmd : Command, ts : Int]

Resting == [pc |-> "sleep", cur |-> 0, k |-> 1, idx |-> <<>>]

Init ==
  /\ alive = TRUE
  /\ now = 0
  /\ reader = [pc |-> "reading", ts |-> 0]
  /\ slot = NoBytes
  /\ midi_messages_ = <<>>
  /\ raced = FALSE
  /\ spooler = Resting
  /\ ticker = "test"
  /\ clock_rate = 0
  /\ port = [last |-> "none", locates |-> 0, ticks |-> 0]

\* The seconds pass.
Second ==
  /\ alive /\ now < MaxTime
  /\ now' = now + 1
  /\ UNCHANGED <<alive, readerVars, midi_messages_, raced, spooler, ticker,
                 clock_rate, port>>

-----------------------------------------------------------------------------
(* client_connection::reader()                                             *)

\* exec_timestamp lies midi_buffer ahead, but for SONG_POS, which is sent "now".
Lead(c) == IF c = "SONG_POS" THEN 0 ELSE MidiBuffer

\* A line is read and parsed; message_bytes, a new vector in the old place, is
\* filled and build_midi_message() takes its address.
ReaderParses(c, d) ==
  /\ alive /\ reader.pc = "reading" /\ Len(midi_messages_) < MaxCued
  /\ reader' = [pc |-> "parsed", ts |-> now - d + Lead(c)]
  /\ slot' = c
  /\ UNCHANGED <<alive, now, midi_messages_, raced, spooler, ticker, clock_rate, port>>

\* cue_midi_message() enters push_back(), perhaps in the middle of a scan.
ReaderCues ==
  /\ alive /\ reader.pc = "parsed"
  /\ reader' = [reader EXCEPT !.pc = "cueing"]
  /\ raced' = (spooler.pc # "sleep")
  /\ UNCHANGED <<alive, now, slot, midi_messages_, spooler, ticker, clock_rate, port>>

\* The spooler holds its reference cur_message into midi_messages_.
Handling == spooler.pc \notin {"sleep", "scan", "erase"}

\* push_back() returns and SLEEP(10) begins.
ReaderCued ==
  /\ alive /\ reader.pc = "cueing"
  /\ \/ midi_messages_' = Append(midi_messages_, [cmd |-> slot, ts |-> reader.ts])
     \/ raced /\ UNCHANGED midi_messages_
  /\ reader' = [reader EXCEPT !.pc = "sleeping"]
  /\ raced' = (raced /\ Handling)
  /\ UNCHANGED <<alive, now, slot, spooler, ticker, clock_rate, port>>

\* A message the next scan will take.
Due(m) == m.ts >= now

\* Mutant: no SLEEP(10) after cueing.
ReaderLeavesAtOnce ==
  /\ alive /\ reader.pc = "sleeping"
  /\ reader' = [reader EXCEPT !.pc = "reading"]
  /\ slot' = NoBytes
  /\ UNCHANGED <<alive, now, midi_messages_, raced, spooler, ticker, clock_rate, port>>

(***************************************************************************)
(* SLEEP(10) ends and message_bytes is destroyed.  The spooler sleeps 1 ms *)
(* between scans, so with KeepsUp it has scanned the new message by then.  *)
(***************************************************************************)
ReaderLeavesScope ==
  /\ alive /\ reader.pc = "sleeping"
  /\ KeepsUp => /\ spooler.pc = "sleep"
                /\ \A i \in DOMAIN midi_messages_ : ~Due(midi_messages_[i])
  /\ reader' = [reader EXCEPT !.pc = "reading"]
  /\ slot' = NoBytes
  /\ UNCHANGED <<alive, now, midi_messages_, raced, spooler, ticker, clock_rate, port>>

-----------------------------------------------------------------------------
(* send_midi_messages()                                                    *)

At(pc) == alive /\ spooler.pc = pc
Goto(pc) == spooler' = [spooler EXCEPT !.pc = pc]

\* Using midi_messages_ while reader() is inside push_back().
TouchMessages == raced' = (raced \/ reader.pc = "cueing")

\* message_bytes->data()[0]: of the destroyed vector it may be anything.
FirstByte == IF slot = NoBytes THEN Command \cup {NoBytes} ELSE {slot}

\* sendMessage() of a transport command; of an empty vector it sends nothing.
\* The count of SONG_POS in a row is capped at three.
Emit(c) ==
  port' = IF c = NoBytes THEN port
          ELSE [last |-> c, ticks |-> 0,
                locates |-> IF c # "SONG_POS" THEN 0
                            ELSE IF port.locates < 3 THEN port.locates + 1 ELSE 3]

SpoolerWakes ==
  /\ At("sleep")
  /\ spooler' = [pc |-> "scan", cur |-> now, k |-> 1, idx |-> <<>>]
  /\ UNCHANGED <<alive, now, readerVars, midi_messages_, raced, ticker, clock_rate, port>>

\* The k-th message: stale, so skipped and kept; or due, and looked into when
\* its bytes are not empty.
SpoolerScans ==
  /\ At("scan") /\ spooler.k <= Len(midi_messages_)
  /\ IF midi_messages_[spooler.k].ts < spooler.cur
     THEN spooler' = [spooler EXCEPT !.k = @ + 1]
     ELSE Goto(IF slot = NoBytes THEN "note" ELSE "first")
  /\ TouchMessages
  /\ UNCHANGED <<alive, now, readerVars, midi_messages_, ticker, clock_rate, port>>

\* Mutant: the wrong field of the message becomes the rate.
SpoolerSetsRateFromTime ==
  /\ At("first")
  /\ \E c \in FirstByte :
       IF c = "START" \/ (c = "CONTINUE" /\ clock_rate # 0)
       THEN clock_rate' = midi_messages_[spooler.k].ts /\ Goto("sendFirst")
       ELSE UNCHANGED clock_rate /\ Goto("second")
  /\ TouchMessages
  /\ UNCHANGED <<alive, now, readerVars, midi_messages_, ticker, port>>

\* Mutant: a CONTINUE is taken up although nothing has started.
SpoolerTakesContinue ==
  /\ At("first")
  /\ \E c \in FirstByte :
       IF c \in {"START", "CONTINUE"}
       THEN clock_rate' = TickInterval /\ Goto("sendFirst")
       ELSE UNCHANGED clock_rate /\ Goto("second")
  /\ TouchMessages
  /\ UNCHANGED <<alive, now, readerVars, midi_messages_, ticker, port>>

\* START, or CONTINUE while the clock runs: the rate is set before sending.
SpoolerSetsRate ==
  /\ At("first")
  /\ \E c \in FirstByte :
       IF c = "START" \/ (c = "CONTINUE" /\ clock_rate # 0)
       THEN clock_rate' = TickInterval /\ Goto("sendFirst")
       ELSE UNCHANGED clock_rate /\ Goto("second")
  /\ TouchMessages
  /\ UNCHANGED <<alive, now, readerVars, midi_messages_, ticker, port>>

SpoolerSendsFirst ==
  /\ At("sendFirst")
  /\ Emit(slot)
  /\ Goto("second") /\ TouchMessages
  /\ UNCHANGED <<alive, now, readerVars, midi_messages_, ticker, clock_rate>>

\* SONG_POS, the first time: it is sent, and the rate set to 0.
SpoolerTestsSecond ==
  /\ At("second")
  /\ \E c \in FirstByte : Goto(IF c = "SONG_POS" THEN "sendSecond" ELSE "third")
  /\ TouchMessages
  /\ UNCHANGED <<alive, now, readerVars, midi_messages_, ticker, clock_rate, port>>

SpoolerSendsSecond ==
  /\ At("sendSecond")
  /\ Emit(slot)
  /\ Goto("zero") /\ TouchMessages
  /\ UNCHANGED <<alive, now, readerVars, midi_messages_, ticker, clock_rate>>

SpoolerStopsClock ==
  /\ At("zero")
  /\ clock_rate' = 0
  /\ Goto("third")
  /\ UNCHANGED <<alive, now, readerVars, midi_messages_, raced, ticker, port>>

\* SONG_POS, the second time: the rate is set to 0, and it is sent.
SpoolerTestsThird ==
  /\ At("third")
  /\ \E c \in FirstByte : Goto(IF c = "SONG_POS" THEN "zeroAgain" ELSE "note")
  /\ TouchMessages
  /\ UNCHANGED <<alive, now, readerVars, midi_messages_, ticker, clock_rate, port>>

\* Mutant: the clock is not stopped again for the jump.
SpoolerLeavesClock ==
  /\ At("zeroAgain")
  /\ Goto("sendThird")
  /\ UNCHANGED <<alive, now, readerVars, midi_messages_, raced, ticker, clock_rate, port>>

SpoolerStopsClockAgain ==
  /\ At("zeroAgain")
  /\ clock_rate' = 0
  /\ Goto("sendThird")
  /\ UNCHANGED <<alive, now, readerVars, midi_messages_, raced, ticker, port>>

SpoolerSendsThird ==
  /\ At("sendThird")
  /\ Emit(slot)
  /\ Goto("stop") /\ TouchMessages
  /\ UNCHANGED <<alive, now, readerVars, midi_messages_, ticker, clock_rate>>

\* Mutant: no START after the STOP.
SpoolerSendsStopOnly ==
  /\ At("stop")
  /\ Emit("STOP") /\ Goto("rate")
  /\ UNCHANGED <<alive, now, readerVars, midi_messages_, raced, ticker, clock_rate>>

SpoolerSendsStop ==
  /\ At("stop")
  /\ Emit("STOP") /\ Goto("start")
  /\ UNCHANGED <<alive, now, readerVars, midi_messages_, raced, ticker, clock_rate>>

SpoolerSendsStart ==
  /\ At("start")
  /\ Emit("START") /\ Goto("rate")
  /\ UNCHANGED <<alive, now, readerVars, midi_messages_, raced, ticker, clock_rate>>

SpoolerRestoresRate ==
  /\ At("rate")
  /\ clock_rate' = TickInterval
  /\ Goto("note") /\ TouchMessages
  /\ UNCHANGED <<alive, now, readerVars, midi_messages_, ticker, port>>

\* Mutant: the index noted is one too low.
SpoolerNotesOffByOne ==
  /\ At("note")
  /\ spooler' = [spooler EXCEPT !.pc = "scan", !.k = @ + 1,
                                !.idx = Append(@, spooler.k - 1)]
  /\ raced' = (raced /\ reader.pc = "cueing")
  /\ UNCHANGED <<alive, now, readerVars, midi_messages_, ticker, clock_rate, port>>

\* The index is noted and the reference cur_message goes out of scope.
SpoolerNotes ==
  /\ At("note")
  /\ spooler' = [spooler EXCEPT !.pc = "scan", !.k = @ + 1, !.idx = Append(@, spooler.k)]
  /\ raced' = (raced /\ reader.pc = "cueing")
  /\ UNCHANGED <<alive, now, readerVars, midi_messages_, ticker, clock_rate, port>>

SpoolerScanned ==
  /\ At("scan") /\ spooler.k > Len(midi_messages_)
  /\ spooler' = [spooler EXCEPT !.pc = "erase", !.k = 1]
  /\ TouchMessages
  /\ UNCHANGED <<alive, now, readerVars, midi_messages_, ticker, clock_rate, port>>

Without(q, i) == SubSeq(q, 1, i - 1) \o SubSeq(q, i + 1, Len(q))

\* The k-th index noted: it was taken before the first erase(), which shifts what
\* follows; beyond the end erase() is undefined and the client dies.
SpoolerErases ==
  /\ At("erase") /\ spooler.k <= Len(spooler.idx)
  /\ LET i == spooler.idx[spooler.k] IN
       IF i <= Len(midi_messages_)
       THEN midi_messages_' = Without(midi_messages_, i) /\ UNCHANGED alive
       ELSE alive' = FALSE /\ UNCHANGED midi_messages_
  /\ spooler' = [spooler EXCEPT !.k = @ + 1]
  /\ TouchMessages
  /\ UNCHANGED <<now, readerVars, ticker, clock_rate, port>>

\* The loop's variables end with this round, and the next clears the indices.
SpoolerRests ==
  /\ At("erase") /\ spooler.k > Len(spooler.idx)
  /\ spooler' = Resting
  /\ UNCHANGED <<alive, now, readerVars, midi_messages_, raced, ticker, clock_rate, port>>

\* The spooler follows a reference into storage that push_back() has freed.
RaceKills ==
  /\ alive /\ raced
  /\ alive' = FALSE
  /\ UNCHANGED <<now, readerVars, midi_messages_, raced, spooler, ticker, clock_rate, port>>

-----------------------------------------------------------------------------
(* send_clock()                                                            *)

TickerCommits ==
  /\ alive /\ ticker = "test" /\ clock_rate # 0
  /\ ticker' = "send"
  /\ UNCHANGED <<alive, now, readerVars, midi_messages_, raced, spooler, clock_rate, port>>

\* sendMessage() of a tick; the slave's count of ticks is capped at two.
TickerSends ==
  /\ alive /\ ticker = "send"
  /\ ticker' = "test"
  /\ port' = [port EXCEPT !.ticks = IF @ < 2 THEN @ + 1 ELSE 2]
  /\ UNCHANGED <<alive, now, readerVars, midi_messages_, raced, spooler, clock_rate>>

-----------------------------------------------------------------------------
Reader ==
  \/ \E c \in Command, d \in 0 .. MaxDelay : ReaderParses(c, d)
  \/ ReaderCues
  \/ ReaderCued
  \/ ReaderLeavesScope

Spooler ==
  \/ SpoolerWakes           \/ SpoolerScans       \/ SpoolerSetsRate
  \/ SpoolerSendsFirst      \/ SpoolerTestsSecond \/ SpoolerSendsSecond
  \/ SpoolerStopsClock      \/ SpoolerTestsThird  \/ SpoolerStopsClockAgain
  \/ SpoolerSendsThird      \/ SpoolerSendsStop   \/ SpoolerSendsStart
  \/ SpoolerRestoresRate    \/ SpoolerNotes       \/ SpoolerScanned
  \/ SpoolerErases          \/ SpoolerRests

Ticker == TickerCommits \/ TickerSends

Next == Second \/ Reader \/ Spooler \/ RaceKills \/ Ticker

Spec == Init /\ [][Next]_vars

(***************************************************************************)
(* The spooler never blocks: SLEEP(1) and sendMessage() return.            *)
(***************************************************************************)
FairSpec == Spec /\ WF_vars(Spooler)

-----------------------------------------------------------------------------
(* Properties                                                              *)

SpoolerRecord == [pc : SpoolerPc, cur : 0 .. MaxTime, k : Nat \ {0},
                  idx : Seq(1 .. MaxCued)]
PortRecord == [last : Command \cup {"none", "STOP"}, locates : 0 .. 3, ticks : 0 .. 2]

\* The variables have their types and midi_messages_ its bound.
TypeOK ==
  /\ alive \in BOOLEAN
  /\ now \in 0 .. MaxTime
  /\ reader \in [pc : {"reading", "parsed", "cueing", "sleeping"}, ts : Int]
  /\ slot \in Command \cup {NoBytes}
  /\ midi_messages_ \in Seq(MidiMessage) /\ Len(midi_messages_) <= MaxCued
  /\ raced \in BOOLEAN
  /\ spooler \in SpoolerRecord
  /\ ticker \in {"test", "send"}
  /\ clock_rate \in {0, TickInterval}
  /\ port \in PortRecord

(***************************************************************************)
(* The pointer a cued message keeps to reader()'s local vector is good     *)
(* whenever the spooler follows it: the bytes there are those it was cued  *)
(* with, neither destroyed nor those of a later message.                   *)
(***************************************************************************)
PlaysWhatWasCued ==
  alive /\ Handling => slot = midi_messages_[spooler.k].cmd

(***************************************************************************)
(* erase() by the indices noted during the scan takes out a message that   *)
(* the scan found due, and never one it had passed over.                   *)
(***************************************************************************)
ErasesWhatItSent ==
  [][Len(midi_messages_') < Len(midi_messages_) =>
       \E i \in DOMAIN midi_messages_ :
         /\ midi_messages_' = Without(midi_messages_, i)
         /\ midi_messages_[i].ts >= spooler.cur]_vars

(***************************************************************************)
(* At any speed, whatever is cued during the scan and however many indices *)
(* it notes: the first erase() finds its index inside the vector and takes *)
(* out a message the scan found due.  Only those after it can go wrong.    *)
(***************************************************************************)
FirstEraseIsRight ==
  [][spooler.pc = "erase" /\ spooler.k = 1 /\ spooler'.k = 2 =>
       /\ alive'
       /\ \E i \in DOMAIN midi_messages_ :
            /\ midi_messages_' = Without(midi_messages_, i)
            /\ midi_messages_[i].ts >= spooler.cur]_vars

(***************************************************************************)
(* Between the STOP and the START of a jump the slave gets at most one     *)
(* tick, the one send_clock() had committed to when clock_rate became 0,   *)
(* whatever the pointers of the cued messages point to by then.            *)
(***************************************************************************)
OneLateTick == port.last = "STOP" => port.ticks <= 1

\* Every jump stops the slave only to start it: a STOP is followed by a START.
HaltIsBrief == port.last = "STOP" ~> (port.last = "START" \/ ~alive)

Transport == INSTANCE Transport WITH
  phase <- CASE port.last = "none" -> "silent"
             [] port.last = "START" -> "started"
             [] port.last = "CONTINUE" -> "continued"
             [] port.last = "SONG_POS" ->
                  IF port.locates = 1 THEN "locating" ELSE "located"
             [] port.last = "STOP" -> "stopped",
  late <- IF port.last = "STOP" THEN port.ticks ELSE 0

(***************************************************************************)
(* What the slave sees on the port is the protocol of module Transport,    *)
(* whichever broadcasts the client joined in time for and however they     *)
(* were delayed: nothing plays on before a START, and the jump is whole.   *)
(***************************************************************************)
ImplementsTransport == Transport!Spec

(***************************************************************************)
(* README.md, line 12: a message is kept in a buffer until its             *)
(* target_send_timestamp.  The spooler sends none before its second.       *)
(***************************************************************************)
NotBeforeTarget ==
  alive /\ spooler.pc \in {"sendFirst", "sendSecond", "sendThird"} =>
    midi_messages_[spooler.k].ts <= now

=============================================================================
