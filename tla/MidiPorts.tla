----------------------------- MODULE MidiPorts -----------------------------
(***************************************************************************)
(* The client's two virtual MIDI ports: midi_in_ (module MidiInput) and    *)
(* midi_out_ (module MidiOutput).  They share no variable, so a behaviour  *)
(* follows one of them, chosen at the start, and leaves the other unused:  *)
(* interleaving them would add states and no behaviour of either.          *)
(***************************************************************************)
EXTENDS MidiInput

VARIABLES
  followed,             \* the port a behaviour follows
  buffer, coder, call   \* the variables of MidiOutput

Out == INSTANCE MidiOutput
outVars == <<buffer, coder, call>>

PortsInit == followed \in {"in", "out"} /\ Init /\ Out!Init

PortsNext ==
  /\ UNCHANGED followed
  /\ \/ followed = "in" /\ Next /\ UNCHANGED outVars
     \/ followed = "out" /\ Out!Next /\ UNCHANGED vars

PortsSpec ==
  /\ PortsInit /\ [][PortsNext]_<<followed, vars, outVars>>
  /\ WF_vars(HandlerStep) /\ WF_vars(OwnerStep)

\* The messages of MidiInput are the sequences of its events.
EventSeqs == Seq(Event)

\* ignoreTypes(false, false, false), as init() calls it, and all types ignored.
IgnoreArguments == {{}, AllTypes}

-----------------------------------------------------------------------------
\* The variables of both ports have their types.
PortsTypeOK == TypeOK /\ Out!TypeOK

\* What the two threads that share midi_out_ may send, and what they never send.
SendsItsOwnOrMet == Out!SendsItsOwnOrMet

=============================================================================
