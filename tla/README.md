# midiPool in TLA+

midiPool synchronises MIDI sequencers over a network. A server counts bars and
broadcasts START, CONTINUE and SONG_POS as JSON lines over TCP; a client keeps
the broadcasts in a buffer, from which a spooler thread writes them to a
virtual MIDI port, and generates the MIDI clock ticks itself. Beside it, audio
goes from a client through the server and back over RTP.

This directory holds TLA+ modules of the parts of that program, TLC
configurations that check them on small instances, and proofs that TLAPS
checks for all values of the constants. `PROJECT.json` lists components, runs,
theorems, hazards, the source lines behind every definition, and for each
property a plausible bug that TLC finds with it.

    tlc -workers 2 -config MCSessionRoom.cfg MCSessionRoom
    tlapm SessionRoomProofs.tla

Paths below are relative to `src/`.

## 1. Inventory

### 1.1 Threads

| process | thread | runs |
|---------|--------|------|
| server | io | `io_context::run()` in `main()`: `listener()`, every session's `reader()` and `writer()` |
| server | clock (one per port) | `midi_clock()` |
| server | audio | `audio_server_socket::init_audio_socket()` |
| client | io | `client_connection::reader()` |
| client | spooler | `midi_cue::send_midi_messages()` |
| client | clock sender | `midi_cue::send_clock()` |
| client | audio in / out | `audio_transmitter`, `audio_client_socket`, each with the callback thread of libsoundio |
| client | ALSA | RtMidi's input handler, calling `midi_callback()` |

The program's own code has no mutex. Each pair of threads that shares an
object does so by plain reads and writes, and that is where most of what can go
wrong is.

### 1.2 Components

**Broadcast room and sessions** (`server/server.cpp:14-140, 195-211`).
State: `participants_` of the room; per session the socket, the timer that
serves as a condition variable, `write_msgs_`, and where the two coroutines
are. Operations: accept and `start()`, `deliver()` (called by readers on the io
thread and by `midi_clock()` on its own), `reader()`, `writer()`, `stop()`.
Hard: `deliver()` on the clock thread comes in between any two steps of a
coroutine, and inside `empty()` ... `async_wait()`; both coroutines may call
`stop()`, once each, in any order; the queue is popped two suspensions after its
front was read.
Correct when: the room seats exactly the open sockets; what is popped is what
was written; nobody sleeps for ever, either over a backlog or on a closed
session.

**Server clock and the loop** (`server/server.cpp:142-193`).
State: `four_bars`, and the time. Operations: START once, CONTINUE with every
bar, SONG_POS when the loop is over. START and CONTINUE are to be executed
`midi_buffer` = 30 seconds later, SONG_POS at once.
Hard: clients join at any time, after START; messages are late, and some are
lost; whole seconds are compared.
Correct when: the loop has `loop_length` bars; whoever joins plays from the next
loop on; nobody jumps at the wrong bar.

**Client MIDI spooler and clock sender** (`midi/midi_cue.hpp`,
`utils/structs.hpp`). State: `midi_messages_`, `clock_rate`, the indices and the
reference of a scan in progress. Operations: `cue_midi_message()`, a scan, a tick.
Hard: three threads without a lock; every cued message points to one local
variable of `reader()`; indices into a vector that shifts; a tick sent after it
was decided on.
Correct when: what is sent is what was cued, and it is what is erased; the slave
sees a sensible protocol: nothing continues before a START, and a jump is not
cut short nor disturbed by clock ticks.

**Client connection** (`client/client_connection.hpp`, `client/client.cpp`).
State: the socket and `message_bytes`. `reader()` is the only coroutine ever
spawned; `writer()` is dead code, and `stop()` is called only from it.
Hard: of lines that arrive together the first is kept and the rest thrown away
with the local buffer; after end of file the loop never ends, since the `stop()`
in its handler is commented out.
Correct when: every line becomes one cued message (it does not), and the loop
ends with the connection (it does not).

**Line framing over TCP** (`server/server.cpp:88-121`,
`client/client_connection.hpp:49-77`). State: the byte stream, and how much of it
each reader has taken. A message is two writes, its text and `buffer("\n")`,
which is the literal's two bytes: a newline and a NUL. Both readers use a fresh
buffer per line and lose what else was in it. The client parses up to the
newline; the server parses the buffer as a C string, that is up to the NUL, and
closes the session when that is no JSON text.
Hard: reads that end anywhere, also between the newline and its NUL, which then
begins the next line; a connection that breaks anywhere.
Correct when: what is used is a message that was sent, in order and once, and a
session ends only for a line that was really torn.

**Server audio forwarding** (`audio/audio_server_socket.hpp`). State: `senders`,
a vector grown by the io thread for each accepted connection and read by the
audio thread for each buffer. Nothing is ever removed, and only the first entry
is used.
Correct when: audio goes to whom it is meant for, whoever joins meanwhile.

**Client capture ring** (`audio/audio_transmitter.hpp`), **client playback
ring** (`audio/audio_client_socket.hpp`). State: libsoundio's ring buffers, each
between one callback thread and one loop, and the callbacks' counts and pointers.
Hard: underflow and overflow, holes, and the pointers when the device grants
fewer frames than were asked for; the playback ring is written in samples and
read in frames.
Correct when: no slot is read while it is written, channels keep their place,
and what is heard was recorded, in order and once, but where the device or its
library failed.

**RtMidi** (`midi/RtMidi.cpp`), vendored but part of the client's data path: the
input handler with its bounded queue (`MidiQueue`), and `sendMessage()`, whose
buffer and encoder two client threads share.
Hard: a queue without a lock; a callback set while the handler runs; a handler
asleep in `poll()` when the port is closed; two calls of `sendMessage()` at once.
Correct when: the queue is a FIFO that drops only when full; nothing is delivered
out of order, into a missing callback or after `closePort()`; what is sent is
what some caller gave.

**Start and shutdown** (`server/server.cpp:195-237`, `client/client.cpp`).
Joinable threads are destroyed at every orderly exit, which is
`std::terminate()`. The client also makes a second `client_connection` that is
destroyed at once, while its connection attempt is pending.

**JSON library** (`utils/json.hpp`), vendored: its parser decides which pieces of
the stream count as messages. **User interface** (`client/client_ui.cpp`),
**logging, configuration**: no behaviour of their own.

### 1.3 Interactions

    midi_clock --deliver()--> session_room --push_back, cancel_one--> writer --TCP-->
      reader (client) --cue_midi_message()--> spooler --sendMessage()--> MIDI port
                                                 |clock_rate               ^
                                                 +-----> send_clock -------+

    midi_callback <-- RtMidi handler <-- other MIDI programs      sendMessage() --> ALSA

    device --read_callback--> ring --transmitter--> roc --> forwarding thread (server)
      --> roc of the first client --> read_samples --> ring --write_callback--> device

`SessionRoom` models the first line up to TCP, `LineWire` TCP and both readers,
`MidiCue` the client from the reader on, and `MidiPool` the whole path with its
ends abstracted to a step. `MidiPorts` is the client's two MIDI ports and
`AudioPath` the audio from microphone to loudspeaker.

## 2. Modules

| module | models | actions correspond to |
|--------|--------|-----------------------|
| `SessionRoom` | room, sessions, accepting loop, the clock's `deliver()` | a coroutine from one `co_await` to the next, split where the clock thread can come in between |
| `MCSessionRoom` | | symmetry for TLC |
| `SessionRoomProofs` | | proofs |
| `Transport` | abstract: what a slave may see on the port | |
| `MidiCue` | client reader, spooler, clock sender | the statements of the spooler's scan that touch shared state; the reader in four steps |
| `MidiCueProofs` | | proofs |
| `MidiPool` | `midi_clock()`, TCP links, joining and playing clients | an iteration of the clock's loop, a tick of time, a read |
| `MidiPoolProofs` | | proofs |
| `LossyLine` | abstract: what a connection promises of the messages sent on it | |
| `JsonParser` | `json::parse()`: is this piece of the stream a JSON text? | a token, or what is passed over, is a step |
| `LineWire` | the two writes, TCP, the readers of client and server | a write, a read and what its line is worth, a break |
| `LineWireProofs` | | proofs |
| `BoundedFifo` | abstract: a queue that drops when it is full | |
| `MidiQueue` | RtMidi's input queue | `push()` and `pop()`, split where one looks at the other's index |
| `MidiInput` | `alsaMidiHandler()` and the calls of the port's owner, on `MidiQueue` | an event; the statements of each call that the other thread can come in between |
| `MidiOutput` | `sendMessage()` called by two threads | a byte copied, a byte encoded, an event sent |
| `MidiPorts` | the two ports together | one port's step |
| `MidiInputProofs` (with `MidiQueue`'s), `MidiPortsProofs` | | proofs |
| `AudioStream` | abstract: what a listener may hear of what was recorded | |
| `AudioCapture` | `read_callback()` and the transmitter's loop over `ring_buffer` | a frame, the ends of a callback, a second's write |
| `AudioForward` | `senders` of the server under two threads | a buffer read, the look at `senders`, the write, a sender pushed |
| `AudioPlayback` | `read_samples()` and `write_callback()` over `out_ring_buffer` | a buffer queued, a frame, the ends of a callback |
| `AudioPath` | the three and the network between | a step of one of them, a lost frame |
| `MCAudioPath` | | a constraint for TLC (3.1) |
| `AudioPathProofs`, `AudioStreamProofs` | | proofs |

### 2.1 SessionRoom

`reader[s]` and `writer[s]` say at which `co_await` each coroutine is suspended.
One writer state is not a suspension: "arming", between `write_msgs_.empty()`
(line 112) and `timer_.async_wait()` (114). No other coroutine runs then
(`IoIdle`), but the clock thread does. `relay` is `session_room::deliver()` in
progress on the io thread, `clock` the same on the clock thread, each with the
participants it has not reached yet.

Races are outcomes. `push_back()` by the clock thread is a window of two states:
if the io thread changes the same deque inside it, the element may be lost or
the process may die (`RaceKills`). If the io thread changes `participants_`
while the clock thread iterates, a new element may be met or not, and the
process may die. The reverse race, the io thread's own operation damaged by
the clock's, is given the same outcomes at the clock's end of it: the deque
itself stays a queue unless the process dies.

Taken as they should behave: `steady_timer::cancel_one()` and `async_wait()` are
one step each, although Boost does not promise that for one timer used by two
threads. `timer_.expires_at()` is `time_point::max()` and is never changed, so a
wait ends by cancellation alone.

`BarOutlastsArming` is the model's one assumption on time: two broadcasts of the
clock are 96 sleeps of 25 ms apart, and a writer that is between `empty()` and
`async_wait()` at one of them has suspended by the next. Without it several
wake-ups could be lost in a row and `LateByOneBar` would say less.

### 2.2 MidiCue

`slot` is the coroutine frame's `message_bytes`, to which every cued message's
pointer leads: it has the latest message's bytes until `SLEEP(10)` is over, and
then it is a destroyed vector. What a destroyed vector looks like follows an
unoptimised libc++ build: `empty()` is true, `data()[0]` is freed memory and may
be anything, and the next message's vector is built in the same place. `cmd` of
a cued message is a history variable: what the bytes were when it was cued.

`spooler.pc` walks through lines 86-127. Each test of `message_bytes->data()[0]`
is a step of its own, each `sendMessage()` and each assignment of `clock_rate` one
more, since the slot may change between any two of them; only the first test and
the rate it sets (94-97) are one step. The second loop takes one index per step:
the indices were noted before the first `erase()`, which shifts what follows.
`ticker` is `send_clock()` between its test of `clock_rate` (69) and its
`sendMessage()` (73).

`KeepsUp` is a synchronisation that the code does not have. `reader()` only sleeps
10 ms; with `KeepsUp` the model lets it go on after that when the spooler, which
scans 1 ms after its last scan, has found everything due. A spooler descheduled for
longer breaks it. What is checked with `KeepsUp` is therefore what the client does
as long as its timing works out, and it must not be read as more:
`PlaysWhatWasCued` and `ErasesWhatItSent` then say that stale messages' pointers are
not followed and that one noted index stays right among stale and new messages, not
what happens to a pointer that was missed or to a second index. Without it both are
false. What holds at any speed is checked apart: `OneLateTick`, `HaltIsBrief`, and
`FirstEraseIsRight`, which says of `erase()` what is true whatever was cued during
the scan and however many indices it noted.

The messages are those the server's clock sends. A message of another client
would be relayed by the server, but no client ever sends one (`writer()` is
never spawned, `midi_callback()`'s call is commented out); STOP is not sent by
anyone but the spooler itself.

### 2.3 Transport

What the slave may rely on: START begins; CONTINUE only while playing; a jump is
SONG_POS, SONG_POS, STOP, START in a row with at most one tick while stopped.
(SONG_POS does come twice: lines 101 and 115 both send it. A slave that gets it
while silent is started by the jump.) `MidiCue` maps `port`, the calls of
`sendMessage()`, to it.

### 2.4 MidiPool

Time is in ticks: `TicksPerBar` for a bar, `TicksPerSecond` for the grain of
`get_posix_timestamp()`. The server's and the client's clock are the same. A
message carries the seconds it has left to live instead of its
`exec_timestamp`, so that time goes round. The room is one step and gives a
broadcast to everyone who has joined. `link` is TCP with the reader at its end:
of what has arrived, the first message is taken and any prefix of the rest is
lost. A message of `life` below 0 has missed its second, so the spooler's test
`timestamp >= cur_timestamp` (midi_cue.hpp:90) fails for ever. `prompt` is chosen
at the beginning: if it is TRUE a message is read alone, in the tick it was sent;
if not, it may take any time, and the first message read may be lost too: an
earlier read may have left it torn, or with the NUL of the line before (`LineWire`).

`sinceOne` counts from the server's "one", the broadcast that starts the loop,
up to a second, and `offset` is its value when the client began to play.

### 2.5 LineWire and JsonParser

The stream is a sequence of symbols: the structural characters, by their names in
`lexer_base::token_type`, an opening quote with its string, the closing quote, numbers, newlines and NULs. TCP may cut it at
every symbol. A cut inside a string or a number is like one at its edge: a number
without its first digits is a number, and a string without its opening quote is
text the lexer refuses. `clock_rate` and `uuid` are left out of the messages, as
they are no other cases than `exec_timestamp`.

`JsonParser` is `lexer::scan()` and the automaton of `sax_parse_internal()`, whose
stack is the sequence `states`; `Accepts` runs it over the text, from symbol to
symbol (a recursive function, so that it can be reasoned about). `Parsed` is where the
two readers differ: up to the newline on the client, up to the NUL on the server.
On the client a JSON text is not enough: the conversions that follow throw unless it
is an object whose `meta` has its numbers (`Usable`). A missing `bytes` does not
throw: it is null, the loop over it is empty, and the message has no bytes. No torn
line gets that far, since none of them is a JSON text.

A behaviour has one direction of one connection, and `side` says whose reader is
at its end. `LineWire` maps its stream to `LossyLine`, in which a message has
arrived when its newline has been read.

### 2.6 MidiQueue, MidiInput, MidiOutput, MidiPorts

`front`, `back` and `ring` are `MidiQueue`'s; `pushing` and `popping` say which
statement each thread is at, and carry what it has read. The two indices are
plain `unsigned int`s of two threads: the modules keep the program's order of
reads and writes, as the x86 builds do. A `ringSize` of 0 is excluded
(`RingSizeAssumption`): `push()` would compute 2^32 - 1.

`MidiInput` numbers the events, and `handler.bytes` is the sequence of events that
`message.bytes` consists of, so that an order can be stated. `usingCallback` is
read in one step and `userCallback` in the next, as is the owner's setting of
them. `thread = "dummy"` is `data->thread == data->dummy_thread_id`. What a full
sequencer loses and what a sender does while the port is closed is free.
The handler tests `doInput` before every event; "wait" stands both for the look at
pending events and for `poll()`. Left out is the path on which `malloc()` fails for
a chunk longer than any before (RtMidi.cpp:1588-1592): `doInput` is cleared inside
the handler, which then delivers nothing, since `message.bytes` is empty (1545) or a
sysex is open (1666), and ends at its next test of `doInput`. It is an end of the
thread and adds no delivery.

`midi_cue` itself never calls `closePort()` nor `getMessage()`: it opens the port,
sets a callback, and the client ends with the process. They are modelled as what
RtMidi offers the owner of a port, and so are the reopening and the queue, which is
filled only while no callback is set.

`MidiOutput`'s `call` is the two threads' progress through `sendMessage()`, byte
by byte; `coder` is how many data bytes ALSA's encoder still expects, an external
part. `MidiCue` gives a `sendMessage()` one step: its `port` is what the calls
were given, in order, and `MidiOutput` is what becomes of two that overlap. The
server's SONG_POS has one data byte, of which ALSA never makes an event: a slave
on ALSA sees the STOP and START of a jump and not the SONG_POS.

### 2.7 The audio modules

A frame of the device is its number in the order of recording, 0 whatever is no
frame. Ring offsets count from the start, as libsoundio's do, and position p is in
slot p modulo the capacity. Each loop's copying is one step with its look at the
other side's offset, which is right as long as the other side leaves those slots
alone: that is the invariant `NeverTorn` of both rings, which is checked. The
callbacks are modelled frame by frame, since they may end after any.

*Capture.* `read_callback()` moves the write offset by all the frames it wanted
(104), also when it got fewer, met a hole (87, where as many places are cleared but
`write_ptr` stays) or went on after an error of `begin_read()` or `end_read()`, which
it only logs (81, 97): it then copies from areas of an earlier call or of none, so
that any earlier frame, or none, may land in the ring (`CallbackMisreads`). `amiss`
is the set of positions that so got no frame of their own. The transmitter sends
what is in the ring as it is: `given` has the slot's content at every position,
stale and repeated frames included, and `amiss` is not consulted. A position is
noted when `read_callback()` does the damage, which is before it is sent: that, not
what is sent there, is all the specification knows of it.

The ring holds frames of the device, in whatever format and layout was chosen
(160-173); the roc sender takes `fill_bytes` of them as stereo floats (199). So the
two have sizes of their own, `DeviceFrame` and `SenderFrame`, and frame f of the
network is the f-th `SenderFrame` bytes of `given`: several of one frame of the
device, or one across several. Bytes that are no whole number of its frames
`roc_sender_write()` refuses, and the loop is left (`SenderFails`).

*Between.* `roc` is external. `PacketLost` takes any frame out of what is on its way
or turns it into silence, which stands for the networks on both sides of the server.
`AudioForward` has a sender for each session made, a null one when opening it
failed. A session that ends has no step: `stop()` does not touch `senders`, so the
first entry is written to after its client has left as before. What the race on
`senders` leaves is an outcome: the process goes on or it dies (`RaceKills`).

*Playback.* Samples have their frame's number and their channel. Errors of
`begin_write()` and `end_write()` are only logged, so a frame copied then is not
played (`CallbackMiswrites`); in the loop that writes silence such an error leaves
`frame_count` as it is, and the loop does not end while it lasts (131-134). That the
device has the receiver's number of channels is assumed: the layout is libsoundio's
default, and the code does not look. What the device plays while the ring is short,
and the values of samples, are not followed. A thread that ends takes no further step.

`AudioStream` says it from outside: what the sender is given at places not amiss is
recorded frames, in order and none twice; a place can only become amiss before it is
given; and what is played is frames of the network that were given, in order and
none twice.

## 3. What is checked

| run | question | answer |
|-----|----------|--------|
| `room_safety` | What can the io and clock threads do to each other, with two sessions and two messages? | The room seats the open sockets (`RoomIsOpenSockets`); `pop_front()` removes what was written (`WriterHoldsFront`); no writer sleeps on a closed session (`NoSleepAfterClose`); a lost wake-up delays one message, not more (`LateByOneBar`). |
| `room_liveness` | Does every backlog move, does every closed session end? | Yes, if with the next broadcast (`BacklogDrains`, `ClosedSessionEnds`). |
| `room_lost_wakeup` | Does a delivered message wake its writer? | No: finding 1. |
| `cue_keeps_up` | Is the client right if the spooler keeps up with the reader? | The dangling pointer is never followed (`PlaysWhatWasCued`), the message erased is one that was due (`ErasesWhatItSent`), and the port shows the protocol (`ImplementsTransport`). |
| `cue_any_speed` | What remains at any relative speed, with dangling bytes and lost elements? | At most one tick to a stopped slave (`OneLateTick`); every STOP of a jump is followed by its START (`HaltIsBrief`); the first `erase()` after a scan takes out a message it found due (`FirstEraseIsRight`). |
| `cue_target_time` | Does the spooler wait for the second a message is for? | No: finding 2. |
| `pool_sync` | With any delay and loss, does a client jump at the wrong time? | No: within a second of the "one" or not at all (`JumpsOnTheOne`). Whoever joins comes to play, if messages are read in the tick they are sent (`JoinersPlay`). Deadlock is checked: the clock cannot stop. |
| `line_wire` | What do the readers make of a stream cut anywhere? | Whole messages, in order and once, or nothing (`ImplementsLossyLine`); a line read from its beginning is always used (`LineAtStartIsUsed`); the server closes a session for a torn line or a NUL left over, never because lines came together (`StopsOnlyOnTornLine`). |
| `midi_ports` | What can the handler, the owner and the two senders do to each other? | The ring is a FIFO that drops only when full (`ImplementsFifo`); deliveries are in order and once (`DeliversInOrder`), never into a missing callback (`NeverCallsNull`) nor after closing (`QuietWhenClosed`), and closing ends (`CloseReturns`). Overlapping `sendMessage()` calls may send each other's event, but none that nobody sent (`SendsItsOwnOrMet`). |
| `midi_input_sysex` | Is every message one MIDI message? | No: finding 3. |
| `audio_path` | Is what the listener hears what was recorded? | What was given to the sender is played in order and once, with gaps; and that is what was recorded, in order and once, but for the places amiss (`ImplementsStream`). No slot is read while it is written (`CaptureNeverTorn`, `PlaybackNeverTorn`); left stays left (`ChannelsAligned`). |
| `audio_returned` | Does every client get the audio back? | No: finding 4. |

`CHECK_DEADLOCK FALSE` is given for the room and the cue: their processes may
die (`up`, `alive`), after which nothing happens, and `MidiCue` ends with
`MaxTime`. The wire ends with its connection, and all of wire, ports and audio
with the bound on what is sent, heard or recorded.

### 3.1 Bounds

- `Session`: two, so that one session can be closed, accepted or relaying while
  the clock thread is at the other. No step involves three.
- `Message`: two in the safety run, so that the wrong front of a queue differs
  from the right one; one in the liveness run, whose properties do not look at
  contents.
- `MaxQueue`: 2. No broadcast starts while a queue of the room has that many, but
  one by each thread may be in progress, so a queue gets to 3: the state of
  `LateByOneBar` plus one.
- `MaxTime`, `MidiBuffer`, `MaxDelay` (3, 1, 2): a message can come early, in its
  second, in time by a second, or stale, both for `SONG_POS` and the others.
- `MaxCued` 3 (2): two stale messages and a due one in a scan, in every order, or
  two due ones. The reader takes no message while that many are cued. Stale
  messages are never erased, so a run ends when the vector is full of them; all
  shorter histories are covered.
- `TicksPerBar` 5, `TicksPerSecond` 2: a bar is not a whole number of seconds, as
  2.4 s is not, so a broadcast comes at each phase of a second. `loop_length` 2:
  a bar with CONTINUE and the one without. `Oversleep` 1: a `usleep()` too long.
- `Command` {CONTINUE, SONG_POS}, `MaxMessages` 3: the two shapes of a message,
  and a line that is neither first nor last. `MaxBuffer` 45 symbols: two lines and
  a bit of the third, so that a read can end in each of them.
- `RingSize` 3 (2 for the sysex): two messages fill the queue, and the indices wrap
  with the third. `MaxEvents` 3: a sysex of two chunks with an event between,
  before or after it. `MaxOpens` 2: what the first opening leaves to the second.
  One port is followed per behaviour: they share no variable.
- `CaptureSlots` 2, `MaxFrames` 3: the first slot is used again, with what it had
  when a callback passes over it, and a callback wants one frame or both, so that a
  hole may come before, after or instead of a frame. `DeviceFrame` 16 and
  `SenderFrame` 8: a frame of the device is two of the network. `PlaybackSlots` 4
  samples of 2 `Channels`, `BufferFrames` 2: a buffer fits whole, or its rest is
  dropped. `Client`: the first to join and one other. `Minima` {0, 1}: a device that
  asks for nothing, as ALSA's does, and one that must have a frame.
  `MCAudioPath!Focus` keeps the product of the two ends small: once a sender is
  pushed, two frames at most, recorded without error, go on through the server to
  the listener; while there is none, the capture side runs to `MaxFrames` with all
  its errors. It leaves nothing out that could matter, as the server and the
  playback side see of a frame only its number among the sender's, which does not
  depend on what is in it; and the theorems of 4 have no such bound.
- `MaxLink` 3: a START, a CONTINUE and a SONG_POS coalesced. The clock waits
  while a link is full, which the code would not: a client more than three bars
  behind is outside the model.

### 3.2 Fairness, and why

`SessionRoom!Fairness`: the clock thread never blocks; its fairness is strong
because the guard `HasRoom` is the module's bound and comes and goes. A relay in
progress goes on (weak). Handlers wait in the run queue of `io_context`, which is
first in, first out: one that is ready runs although others run before it
(strong, since `IoIdle` goes up and down). A pending write completes or fails,
which says that a peer does not stall its TCP connection for ever. A read need
not complete, unless its socket was closed. Nothing is assumed of new
connections, of data, or of races.

`MidiCue!FairSpec`: the spooler alone, weakly; it never waits for anyone.
`MidiPool!FairSpec`: time goes on, the clock and every client's reader do.
`PortsSpec`: the handler and the owner inside a call go on, weakly; nothing is
assumed of the events that arrive, nor that the owner ever calls.
`LineWire!FairSpec`: the writer writes, and a line that has arrived is read
(`WF_taken(ReadsLine)`, which says nothing of where the read ends). Both run on an
`io_context` that serves its handlers in turn.

### 3.3 Findings

1. *Lost wake-up* (`server/server.cpp:114`). `midi_clock()` calls `deliver()` on
   its own thread. If `push_back()` and `cancel_one()` fall between the writer's
   `empty()` and its `async_wait()`, no wait is there to cancel and the writer
   sleeps with the broadcast in its queue, until the next one, 2.4 s later. The
   README's line 12 (an item of its goals, not ticked off) says "every client
   receives tick/continue messages simultaneously". `LateByOneBar` and
   `BacklogDrains` bound the damage.
2. *Messages are not kept until their time* (`midi/midi_cue.hpp:90`). The same
   item says "this messages will kept in buffer. every message contains a
   target_send_timestamp. a dedicated clock message spooler pipes the messages
   into the virtual midi input device". The server sets START and CONTINUE 30
   seconds ahead (server.cpp:172, 190), which has a purpose only if the client
   waits. It does not: `timestamp >= cur_timestamp` takes a message while its
   second is to come, and never once it has passed.

3. *A sysex and a tick become one message* (`midi/RtMidi.cpp:1612`). RtMidi.h:536-537
   says "Each message represents one and only one MIDI message." ALSA hands a long
   sysex over in chunks; an event that comes between two of them is appended to
   the first and ends it. `midi_cue::init()` calls `ignoreTypes(false, false,
   false)`, so that ticks do come between.

4. *Audio is returned to one client* (`audio/audio_server_socket.hpp:139`). README
   line 14, ticked off as "50% done", says "audio output of all users is send to the
   server, and returned to the audio input device of all clients". The forwarding
   thread writes each buffer to `senders.data()[0]` alone: the client whose sender
   was pushed first, for ever, also when it has left, or nobody when that sender did
   not open. `ReturnedToAll` fails with the second client.

Also seen, and part of the models: a SONG_POS that is read in the second after
it was sent is dropped, so `JoinersPlay` is stated where `prompt` is TRUE; with two
messages due in one scan the second `erase()` hits the wrong element or none, so
`ErasesWhatItSent` needs `KeepsUp`; frames of thirty seconds ago are sent again when
the device gives fewer frames than it promised; START and CONTINUE may be 30 seconds late
and still be sent; a START may be lost in `sendMessage()` to a tick that overlaps
it, and the tick sent twice.

## 4. What is proved

All eight proof modules are checked by `tlapm` in full, for any finite or infinite
set of sessions, messages and clients and any bounds that satisfy the
assumptions named in the modules: positive bounds, null values that are no
sessions or messages, ignored types that are types (`IgnoreAssumption`), and for
the audio a playback ring of whole frames (`SizesAssumption`). Two hypotheses are
written out in the theorems that need them: `KeepsUp` (see 2.2), and, for the
types of the input port, `Seq(Event) \subseteq Message`. The latter is not an
assumption of the module because the runs use a finite `Message`.

Of the passing runs' invariants, action properties and refinements all but two are
theorems: `PlaysWhatWasCued` and `ErasesWhatItSent` are left to TLC, since they
restate what `KeepsUp` supposes (2.2). So is liveness. By component:

- `SessionRoomProofs!RoomInvariant`: `Spec => []RoomInv`. The four safety
  properties of `room_safety` are not inductive. `RoomInv` adds what the two
  threads cannot do to each other: a writer that is about to sleep, or sleeps,
  has an open socket (`SleepersAreOpen`); no relay runs while a writer is
  "arming" (`RelayIsAlone`); one pass of the clock's loop visits a session at most
  once (`ClockVisitsOnce`); so what an "arming" writer overlooked is one message,
  pushed in this pass (`OnePushWhileArming`). From it follow `TypeCorrect`, `SeatsAreOpenSockets`,
  `FrontIsTheWrittenOne`, `SleepersHaveOpenSockets` and
  `LostWakeupCostsOneMessage`.
- `MidiCueProofs!TypeCorrect` and `AtMostOneLateTick`. The former's invariant
  bounds `midi_messages_` and the spooler's indices across erasures. The latter's
  ties the clock sender to the spooler: when a STOP was the last command and the
  START is to come, `clock_rate` is 0; then a tick is either already sent or is
  the one committed to, never both. Neither assumes `KeepsUp`.
- `MidiCueProofs!FirstErase`, at any speed: the indices noted are rising and inside
  the vector, and as long as nothing has been erased each is of a message the scan
  found due (`NotedInv`); what is cued meanwhile goes behind them.
- `MidiCueProofs!KeepsUpInvariant` and `TransportImplemented`, which assume
  `KeepsUp`. `CuedInv`: all of `midi_messages_` is stale but its last element, and
  that one only while the reader sleeps with its bytes in the frame
  (`OnlyLastIsFresh`); so the message at hand is the last (`HandlesFresh`).
  `SlaveInv` adds, for each line of the spooler's scan, what the port has seen last;
  with it every step of the three threads is a step of `Transport` or leaves the
  port alone. The theorem says what the order of the spooler's tests and sends and
  the ticker's race amount to for the slave, given the timing; it says nothing in
  support of the timing.
- `MidiPoolProofs!TypeCorrect` and `JumpsAreOnTheOne`. A SONG_POS in a link that is
  still good was sent in this second, so `sinceOne` is at most the ticks of this
  second so far; and `four_bars` is below `loop_length` while a bar is counted.

- `MidiInputProofs!QueueInvariant` and `QueueImplementsFifo`: for every ring size
  and every interleaving, the ring is `BoundedFifo`. `QueueInv` is types and three
  facts that the threads rely on: every waiting slot holds a message
  (`WaitingAreMessages`); a push that was allowed still has room, since only it
  fills the ring (`PushKeepsItsRoom`); a pop that found a message still has it, and
  what it copied is the front (`PopKeepsItsMessage`). The argument is about indices:
  `Slots` says that the waiting positions are distinct slots and that `back` is none
  of them, so storing there changes nothing that waits (`StoreIsBehind`), moving
  `back` appends (`AppendIs`), moving `front` takes the tail (`TailIs`).
- `MidiInputProofs!InputInvariant`. `InputInv` adds to the checked properties why
  they last: a callback once set stays set; a handler that was told to stop is at
  work only inside `closePort()`; what is gathered in `message.bytes` is newer than
  all that was delivered whenever it can still be delivered. From it
  `CallbackIsThere`, `ClosedIsQuiet`, `DeliveryInOrder`, and, with the queue's
  theorem, `InputImplementsFifo`, for any bounds, any sets of ignored types and any
  `Message` that contains the handler's messages.
  `InputTypeCorrect` adds what the owner's calls maintain, the bound of the pipe
  that wakes the handler among them.
- `MidiPortsProofs!InputPort` says that the input port behaves as `MidiInput` also
  with the output port beside it; its theorems carry over. `OutInv` is about the
  buffer and the coder that two calls of `sendMessage()` share: the first byte in
  the buffer belongs to a call that this one has met or is (`FindsMixed`), a second
  byte is always that of a SONG_POS, and the coder awaits it (`AwaitsBoth`). Hence
  `SendsNothingElse`, for any number of calls, and `PortsTypeCorrect`.
- `AudioPathProofs!PathInvariant`, from which `PathTypeCorrect`,
  `CaptureIsNeverTorn`, `PlaybackIsNeverTorn` and `ChannelsStayAligned`. Each thread
  acts on the other's offset as it was some time ago. What makes that safe is that a
  share once reserved ends at most a ring's length after the other's offset, which
  only grows (`CaptureInv`, `PlaybackInv`); positions less than a ring apart are
  different slots (`Apart`). Left stays left because every offset is a multiple of
  `Channels` and what lies between is whole frames; this is where
  `PlaybackSlots % Channels = 0` is needed, and with an odd capacity it would fail.
- `AudioStreamProofs!FramesStayInOrder` and `StreamImplemented`: for all sizes, of
  frames too, the path implements `AudioStream`. `RingInv` follows the device's
  frames: every position filled and not amiss has a recorded frame, in order and
  unlike any other, although old frames, copies and holes lie between. It rests on
  `PathInv`: what has been copied is not overwritten before it is given
  (`NotReadYet`). `OrderInv` follows the network's frames through the six places
  they can be in (`Place`): still to be given, the way up, the forwarder's buffer,
  the way down, `out_ring_buffer`, the listener. Frames nearer to the listener come
  earlier, and one lemma (`OnePlaceOn`) does for every step of the path, since each
  takes frames at most one place on.

- `LineWireProofs!WireInvariant`, from which `WireTypeCorrect`,
  `LossyLineImplemented` and `StopsOnTornLines`, in three parts.
  *The parser.* A line from its beginning is a JSON text, with the NUL behind it
  or without (`LineAccepted`); what is left of it after one symbol or more, with
  whatever follows, is none (`RestRefused`). The latter goes by where the rest
  begins: the parser is in error after at most seven symbols (`BadFirst` to
  `BadObject`), and an error is final (`ErrorStays`).
  *The stream.* `Placed` says that symbol i is letter `q[i]` of message `l[i]`, and
  that the messages stand there whole and in the order of `deliver()`; `Written`
  says that the last is complete up to where the writer is, `Waiting` that the
  writer's queue is the rest. A connection that breaks cuts the end off, which
  only `Written` is disturbed by.
  *The readers.* What a reader parses begins with some letter of a message and
  contains the rest of it (`ParsedLetters`), so it is a text if and only if that
  letter is the first (`OnlyWholeLines`, `WholeLines`). Then as many newlines have
  been read as messages precede it (`CountIs`), so that the message used is the
  next of `LossyLine` (`UsesTheNext`). The type invariant needs all of this, since
  `used` holds texts only because the parser refuses everything else. The theorems
  hold for any number of messages and any size of the reader's buffer.

Induction over data, as the parser's run needs it, cannot use the library's
induction theorems: they take an operator as a parameter, which the provers here
do not instantiate. `LineWireProofs!Induction` states it for a set instead (a set
with 0, and n + 1 for each n, contains `Nat`), from `WellFoundedInduction`'s
least element of a set, and what is to be proved of all n is membership in a set
comprehension. That a run of the parser exists on each text (`RunExists`) is
proved the same way.

TLC only: liveness, that is `BacklogDrains`, `ClosedSessionEnds`, `HaltIsBrief`,
`JoinersPlay`, `CloseReturns` and `LineAtStartIsUsed`. The prover does not reach
`ENABLED`. `LineAtStartIsUsed` has its safety half in `WholeLines`: a line that is
read from its beginning is accepted.

## 5. What is not modelled, and the plan

Not modelled:

- *Client's lifecycle.* `main()` starts the threads, joins none of them, and ends
  in `std::terminate()`; the second `client_connection` is destroyed under its
  pending `async_connect`. What then happens is a matter of object lifetimes, not
  of steps the program takes, and no document says what should be left. The
  endless loop after end of file is in `LineWire` (`ReaderThrowsAtEnd`).
- *RtMidi* beyond the ALSA calls listed in 2.6: `openPort()`,
  `cancelCallback()`, the time stamps of messages, and the back ends of the other
  platforms, which are not built here.
- *JSON library* beyond the parser: the DOM and `dump()`. At 25,447 of the
  repository's 31,255 lines, vendored, it and RtMidi's other platforms are most of
  the source, and what `map` covers is small beside them; of the program's own
  code and of the ALSA back end it is most.
- The user interface (a demonstration window connected to nothing), logging, and
  the choice of devices, rates and formats, whose options are the business of
  libroc and libsoundio.
- Growth without bound, of `write_msgs_` and of `midi_messages_`: the models bound
  both.

Planned: an abstract room, for each session a queue between delivery and writing,
which `SessionRoom` implements, and the proof that it does.
