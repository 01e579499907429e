----------------------------- MODULE MidiInput -----------------------------
(***************************************************************************)
(* RtMidiIn on ALSA (midi/RtMidi.cpp) as midi_cue holds it: the thread     *)
(* alsaMidiHandler() receives the events that other MIDI programs send to  *)
(* the virtual port, puts the chunks of a system exclusive message         *)
(* together, and hands each message to the callback or, while there is     *)
(* none, to the queue.  The owner thread opens and closes the port, sets   *)
(* the callback and the types to ignore, and may poll the queue.           *)
(*                                                                         *)
(* midi_cue::init() opens the port first and sets the types and the        *)
(* callback while the handler is already running.                          *)
(***************************************************************************)
EXTENDS MidiQueue

CONSTANTS
  MaxEvents,   \* bound: events that reach the handler
  MaxOpens,    \* bound: times the owner opens the port
  IgnoreSets   \* the arguments of ignoreTypes(), as sets of event kinds

ASSUME BoundsAssumption == MaxEvents \in Nat /\ MaxOpens \in Nat

(***************************************************************************)
(* The kinds of events the handler tells apart.  A sysex of the sender     *)
(* arrives in two chunks; "port" stands for the announcements of the       *)
(* sequencer and for events that have no MIDI form.                        *)
(***************************************************************************)
Kind == {"note", "clock", "sysexBegin", "sysexEnd", "port"}
Event == [n : 1 .. MaxEvents, kind : Kind]

VARIABLES
  doInput, ignored,        \* RtMidiInData: doInput, ignoreFlags
  userCallback,            \* whether userCallback is set
  usingCallback,           \* RtMidiInData's flag
  thread,                  \* AlsaMidiData's thread: "dummy" or "handler"
  trigger,                 \* bytes in the pipe that wakes the handler
  handler,                 \* alsaMidiHandler(): pc, message.bytes, continueSysex
  owner,                   \* where the owner's call is
  opens,                   \* times the port was opened
  arrived, underway,       \* events so far; the sender is inside a sysex
  newest                   \* the newest event delivered so far

dataVars == <<doInput, ignored, userCallback, usingCallback>>
envVars == <<arrived, underway>>
inputVars == <<dataVars, thread, trigger, handler, owner, opens, envVars, newest>>
vars == <<queueVars, inputVars>>

AllTypes == {"sysexBegin", "sysexEnd", "clock"}

ASSUME IgnoreAssumption == IgnoreSets \subseteq SUBSET AllTypes

Init ==
  /\ QueueInit
  /\ doInput = FALSE /\ ignored = AllTypes
  /\ userCallback = FALSE /\ usingCallback = FALSE
  /\ thread = "dummy" /\ trigger = 0
  /\ handler = [pc |-> "none", bytes |-> <<>>, continueSysex |-> FALSE]
  /\ owner = "idle" /\ opens = 0
  /\ arrived = 0 /\ underway = FALSE
  /\ newest = 0

-----------------------------------------------------------------------------
(* alsaMidiHandler()                                                       *)

HandlerAt(pc) == handler.pc = pc
HandlerGoes(pc) == handler' = [handler EXCEPT !.pc = pc]
handlerFrame == <<dataVars, trigger, owner, opens>>

\* The MIDI event parser cannot be made: the thread ends at once.
HandlerFails ==
  /\ HandlerAt("starting")
  /\ doInput' = FALSE
  /\ HandlerGoes("done")
  /\ UNCHANGED <<queueVars, ignored, userCallback, usingCallback, thread, trigger,
                 owner, opens, envVars, newest>>

HandlerStarts ==
  /\ HandlerAt("starting")
  /\ HandlerGoes("test")
  /\ UNCHANGED <<queueVars, handlerFrame, thread, envVars, newest>>

HandlerTests ==
  /\ HandlerAt("test")
  /\ HandlerGoes(IF doInput THEN "wait" ELSE "ending")
  /\ UNCHANGED <<queueVars, handlerFrame, thread, envVars, newest>>

\* poll() returns for the pipe, of which one byte is read.
HandlerWakes ==
  /\ HandlerAt("wait") /\ trigger > 0
  /\ trigger' = trigger - 1
  /\ HandlerGoes("test")
  /\ UNCHANGED <<queueVars, dataVars, owner, opens, thread, envVars, newest>>

\* The sequencer has overrun: events are lost, perhaps part of a sysex.
HandlerOverrun ==
  /\ HandlerAt("wait") /\ arrived < MaxEvents
  /\ arrived' = arrived + 1
  /\ underway' \in BOOLEAN
  /\ HandlerGoes("test")
  /\ UNCHANGED <<queueVars, handlerFrame, thread, newest>>

\* What the sender may send next.
Sendable(k) == k = "sysexEnd" => underway
Underway(k) == k = "sysexBegin" \/ (underway /\ k # "sysexEnd")

Decoded(k) == k # "port" /\ k \notin ignored

\* Mutant: message.bytes is not cleared before an event.
HandlerHearsUncleared(k) ==
  /\ HandlerAt("wait") /\ arrived < MaxEvents /\ Sendable(k)
  /\ arrived' = arrived + 1
  /\ underway' = Underway(k)
  /\ LET e == [n |-> arrived', kind |-> k]
         bytes == IF ~Decoded(k) THEN handler.bytes
                  ELSE IF handler.continueSysex THEN Append(handler.bytes, e) ELSE <<e>>
         more == IF Decoded(k) THEN k = "sysexBegin" ELSE handler.continueSysex
     IN handler' = [pc |-> IF bytes = <<>> \/ more THEN "test" ELSE "deliver",
                    bytes |-> bytes, continueSysex |-> more]
  /\ UNCHANGED <<queueVars, handlerFrame, thread, newest>>

(***************************************************************************)
(* An event is decoded unless its type is ignored, and put behind the      *)
(* chunks of a sysex that has not ended.  Whatever event is not itself an  *)
(* open chunk completes the message.  Not modelled: malloc() fails for a   *)
(* chunk longer than any before; nothing is delivered then, and the thread *)
(* ends at its next test of doInput.                                       *)
(***************************************************************************)
HandlerHears(k) ==
  /\ HandlerAt("wait") /\ arrived < MaxEvents /\ Sendable(k)
  /\ arrived' = arrived + 1
  /\ underway' = Underway(k)
  /\ LET e == [n |-> arrived', kind |-> k]
         kept == IF handler.continueSysex THEN handler.bytes ELSE <<>>
         bytes == IF Decoded(k) THEN Append(kept, e) ELSE kept
         more == IF Decoded(k) THEN k = "sysexBegin" ELSE handler.continueSysex
     IN handler' = [pc |-> IF bytes = <<>> \/ more THEN "test" ELSE "deliver",
                    bytes |-> bytes, continueSysex |-> more]
  /\ UNCHANGED <<queueVars, handlerFrame, thread, newest>>

Latest(m) == m[Len(m)].n

\* usingCallback is read, and only then userCallback.
HandlerChooses ==
  /\ HandlerAt("deliver")
  /\ IF usingCallback
     THEN HandlerGoes("call") /\ UNCHANGED queueVars
     ELSE HandlerGoes("pushing") /\ PushCalled(handler.bytes)
  /\ UNCHANGED <<handlerFrame, thread, envVars, newest>>

HandlerCalls ==
  /\ HandlerAt("call") /\ userCallback
  /\ newest' = Latest(handler.bytes)
  /\ HandlerGoes("test")
  /\ UNCHANGED <<queueVars, handlerFrame, thread, envVars>>

HandlerPushes ==
  /\ HandlerAt("pushing") /\ PushStep
  /\ IF pushing'.pc = "idle"
     THEN HandlerGoes("test") /\ newest' = Latest(handler.bytes)
     ELSE UNCHANGED <<handler, newest>>
  /\ UNCHANGED <<handlerFrame, thread, envVars>>

\* The loop is left: the last thing the thread does is to disown itself.
HandlerEnds ==
  /\ HandlerAt("ending")
  /\ thread' = "dummy"
  /\ HandlerGoes("done")
  /\ UNCHANGED <<queueVars, handlerFrame, envVars, newest>>

HandlerStep ==
  \/ HandlerStarts \/ HandlerTests \/ HandlerWakes \/ HandlerChooses
  \/ HandlerCalls \/ HandlerPushes \/ HandlerEnds

-----------------------------------------------------------------------------
(* The owner's calls                                                       *)

OwnerGoes(pc) == owner' = pc
ownerFrame == <<handler, newest>>

(***************************************************************************)
(* openVirtualPort(): an old thread that failed is joined, and a new one   *)
(* started.  Meanwhile the sender may have gone anywhere in its stream.    *)
(***************************************************************************)
OpenVirtualPort ==
  /\ owner = "idle" /\ ~doInput /\ opens < MaxOpens
  /\ thread = "handler" => HandlerAt("done")
  /\ doInput' = TRUE
  /\ thread' = "handler"
  /\ handler' = [pc |-> "starting", bytes |-> <<>>, continueSysex |-> FALSE]
  /\ opens' = opens + 1
  /\ underway' \in BOOLEAN
  /\ UNCHANGED <<queueVars, ignored, userCallback, usingCallback, trigger, owner,
                 arrived, newest>>

\* ignoreTypes(): the flags are one byte the handler reads for each event.
IgnoreTypes(s) ==
  /\ owner = "idle"
  /\ ignored' = s
  /\ UNCHANGED <<queueVars, ownerFrame, doInput, userCallback, usingCallback, thread,
                 trigger, owner, opens, envVars>>

\* Mutant: usingCallback is set before userCallback.
SetCallbackFlagFirst ==
  /\ owner = "idle" /\ ~usingCallback
  /\ usingCallback' = TRUE
  /\ OwnerGoes("setting")
  /\ UNCHANGED <<queueVars, ownerFrame, doInput, ignored, userCallback, thread,
                 trigger, opens, envVars>>

\* setCallback() stores the function first ...
SetCallback ==
  /\ owner = "idle" /\ ~usingCallback
  /\ userCallback' = TRUE
  /\ OwnerGoes("setting")
  /\ UNCHANGED <<queueVars, ownerFrame, doInput, ignored, usingCallback, thread,
                 trigger, opens, envVars>>

\* ... and then says that it is in use.
CallbackSet ==
  /\ owner = "setting"
  /\ usingCallback' = TRUE
  /\ OwnerGoes("idle")
  /\ UNCHANGED <<queueVars, ownerFrame, doInput, ignored, userCallback, thread,
                 trigger, opens, envVars>>

\* getMessage(), while no callback is set.
GetMessage ==
  /\ owner = "idle" /\ ~usingCallback
  /\ PopFindsNone \/ PopFindsSome
  /\ OwnerGoes(IF popping'.pc = "idle" THEN "idle" ELSE "popping")
  /\ UNCHANGED <<ownerFrame, dataVars, thread, trigger, opens, envVars>>

GettingMessage ==
  /\ owner = "popping"
  /\ PopAssigns \/ PopAdvances
  /\ OwnerGoes(IF popping'.pc = "idle" THEN "idle" ELSE "popping")
  /\ UNCHANGED <<ownerFrame, dataVars, thread, trigger, opens, envVars>>

\* closePort(): the handler is told to stop, ...
ClosePort ==
  /\ owner = "idle" /\ doInput
  /\ doInput' = FALSE
  /\ OwnerGoes("trigger")
  /\ UNCHANGED <<queueVars, ownerFrame, ignored, userCallback, usingCallback, thread,
                 trigger, opens, envVars>>

\* Mutant: nothing is written to the pipe.
CloseTriggersNothing ==
  /\ owner = "trigger"
  /\ OwnerGoes("joining")
  /\ UNCHANGED <<queueVars, ownerFrame, dataVars, thread, trigger, opens, envVars>>

\* ... woken if it sleeps in poll(), ...
CloseTriggers ==
  /\ owner = "trigger"
  /\ trigger' = trigger + 1
  /\ OwnerGoes("joining")
  /\ UNCHANGED <<queueVars, ownerFrame, dataVars, thread, opens, envVars>>

\* Mutant: closePort() does not wait.
CloseReturnsAtOnce ==
  /\ owner = "joining"
  /\ OwnerGoes("idle")
  /\ UNCHANGED <<queueVars, ownerFrame, dataVars, thread, trigger, opens, envVars>>

\* ... and joined, unless it has disowned itself.
CloseJoins ==
  /\ owner = "joining"
  /\ thread = "dummy" \/ HandlerAt("done")
  /\ OwnerGoes("idle")
  /\ UNCHANGED <<queueVars, ownerFrame, dataVars, thread, trigger, opens, envVars>>

OwnerStep == CallbackSet \/ GettingMessage \/ CloseTriggers \/ CloseJoins

-----------------------------------------------------------------------------
Next ==
  \/ HandlerFails \/ HandlerStep
  \/ HandlerOverrun \/ (\E k \in Kind : HandlerHears(k))
  \/ OpenVirtualPort \/ (\E s \in IgnoreSets : IgnoreTypes(s))
  \/ SetCallback \/ GetMessage \/ ClosePort \/ OwnerStep

Spec == Init /\ [][Next]_vars

(***************************************************************************)
(* Neither thread is held up inside a call; the handler waits in poll()    *)
(* and the owner in pthread_join().                                        *)
(***************************************************************************)
FairSpec == Spec /\ WF_vars(HandlerStep) /\ WF_vars(OwnerStep)

-----------------------------------------------------------------------------
(* Properties                                                              *)

\* The variables have their types.
TypeOK ==
  /\ QueueTypeOK
  /\ ignored \in SUBSET AllTypes
  /\ {doInput, userCallback, usingCallback, underway} \subseteq BOOLEAN
  /\ thread \in {"dummy", "handler"}
  /\ trigger \in 0 .. MaxOpens /\ opens \in 0 .. MaxOpens
  /\ handler \in [pc : {"none", "starting", "test", "wait", "deliver", "call",
                        "pushing", "ending", "done"},
                  bytes : Seq(Event), continueSysex : BOOLEAN]
  /\ owner \in {"idle", "setting", "popping", "trigger", "joining"}
  /\ arrived \in 0 .. MaxEvents /\ newest \in 0 .. MaxEvents

(***************************************************************************)
(* A message that is handed over begins after every event handed over      *)
(* before and keeps its events in the order of their arrival: no event is  *)
(* delivered twice or late, by callback or queue, also across an ignored   *)
(* event, an overrun, and closing and opening the port.                    *)
(***************************************************************************)
DeliversInOrder ==
  handler.pc \in {"deliver", "call"} =>
    /\ newest < handler.bytes[1].n
    /\ \A i \in 2 .. Len(handler.bytes) : handler.bytes[i - 1].n < handler.bytes[i].n

(***************************************************************************)
(* midi_cue::init() sets the callback while the handler runs: the handler  *)
(* never takes the branch of the callback before the function is there.    *)
(***************************************************************************)
NeverCallsNull == handler.pc = "call" => userCallback

(***************************************************************************)
(* "Stop thread to avoid triggering the callback, while the port is        *)
(* intended to be closed": once closePort() has returned the handler       *)
(* touches neither the callback nor the queue.                             *)
(***************************************************************************)
QuietWhenClosed ==
  owner = "idle" /\ ~doInput => handler.pc \in {"none", "done"}

\* closePort() always gets its handler to stop, also when it sleeps in poll().
CloseReturns == owner = "joining" ~> owner = "idle"

(***************************************************************************)
(* RtMidi.h, line 537: "Each message represents one and only one MIDI      *)
(* message."  What is handed over in several pieces is one sysex, from its *)
(* beginning to its end.                                                   *)
(***************************************************************************)
OneMessageEach ==
  handler.pc = "deliver" /\ Len(handler.bytes) > 1 =>
    [i \in DOMAIN handler.bytes |-> handler.bytes[i].kind] = <<"sysexBegin", "sysexEnd">>

=============================================================================
