----------------------------- MODULE MidiQueue -----------------------------
(***************************************************************************)
(* MidiInApi::MidiQueue of midi/RtMidi.cpp: a ring shared by the thread    *)
(* that receives (push) and the thread that calls getMessage() (pop), with *)
(* no lock.  Each reads the other's index once, uses the slot, and only    *)
(* then moves its own index; these are separate steps here.  front and     *)
(* back are plain unsigned ints: the steps keep the program's order, as    *)
(* the x86 builds of the project do.                                       *)
(***************************************************************************)
EXTENDS Integers, Sequences

CONSTANTS
  Message,    \* what is queued
  NoMessage,  \* what getMessage() leaves in its argument when there is none
  RingSize    \* ringSize, the queueSizeLimit of the constructor

\* With a ringSize of 0 push() would compute ringSize - 1 = 2^32 - 1 and store
\* through a null pointer; RtMidiIn's default is 100.
ASSUME RingSizeAssumption == RingSize \in Nat \ {0}
ASSUME MessageAssumption == NoMessage \notin Message

VARIABLES
  front, back,  \* the indices of MidiQueue
  ring,         \* its slots
  pushing,      \* where push() is, and its msg
  popping,      \* where getMessage() is, and what it has copied from the ring
  fetched       \* the argument of getMessage() as its last call left it

queueVars == <<front, back, ring, pushing, popping, fetched>>

QueueInit ==
  /\ front = 0 /\ back = 0
  /\ ring = [i \in 0 .. RingSize - 1 |-> NoMessage]
  /\ pushing = [pc |-> "idle", msg |-> NoMessage]
  /\ popping = [pc |-> "idle", msg |-> NoMessage]
  /\ fetched = NoMessage

\* size(), of the two indices as one thread sees them.
Size == IF back >= front THEN back - front ELSE RingSize - front + back

Wrap(i) == i % RingSize

-----------------------------------------------------------------------------
(* push()                                                                  *)

PushCalled(m) ==
  /\ pushing.pc = "idle"
  /\ pushing' = [pc |-> "size", msg |-> m]
  /\ UNCHANGED <<front, back, ring, popping, fetched>>

\* Mutant: the whole ring is used, so a full queue looks empty.
PushSizesWhole ==
  /\ pushing.pc = "size"
  /\ pushing' = IF Size < RingSize THEN [pushing EXCEPT !.pc = "store"]
                ELSE [pc |-> "idle", msg |-> NoMessage]
  /\ UNCHANGED <<front, back, ring, popping, fetched>>

\* The queue's limit: the message is dropped.
PushSizes ==
  /\ pushing.pc = "size"
  /\ pushing' = IF Size < RingSize - 1 THEN [pushing EXCEPT !.pc = "store"]
                ELSE [pc |-> "idle", msg |-> NoMessage]
  /\ UNCHANGED <<front, back, ring, popping, fetched>>

PushStores ==
  /\ pushing.pc = "store"
  /\ ring' = [ring EXCEPT ![back] = pushing.msg]
  /\ pushing' = [pushing EXCEPT !.pc = "advance"]
  /\ UNCHANGED <<front, back, popping, fetched>>

PushAdvances ==
  /\ pushing.pc = "advance"
  /\ back' = Wrap(back + 1)
  /\ pushing' = [pc |-> "idle", msg |-> NoMessage]
  /\ UNCHANGED <<front, ring, popping, fetched>>

-----------------------------------------------------------------------------
(* getMessage() and pop()                                                  *)

PopFindsNone ==
  /\ popping.pc = "idle" /\ Size = 0
  /\ fetched' = NoMessage
  /\ UNCHANGED <<front, back, ring, pushing, popping>>

PopFindsSome ==
  /\ popping.pc = "idle" /\ Size # 0
  /\ popping' = [popping EXCEPT !.pc = "assign"]
  /\ UNCHANGED <<front, back, ring, pushing, fetched>>

PopAssigns ==
  /\ popping.pc = "assign"
  /\ popping' = [pc |-> "advance", msg |-> ring[front]]
  /\ UNCHANGED <<front, back, ring, pushing, fetched>>

\* Mutant: the index runs out of the ring.
PopAdvancesUnwrapped ==
  /\ popping.pc = "advance"
  /\ front' = front + 1
  /\ fetched' = popping.msg
  /\ popping' = [pc |-> "idle", msg |-> NoMessage]
  /\ UNCHANGED <<back, ring, pushing>>

PopAdvances ==
  /\ popping.pc = "advance"
  /\ front' = Wrap(front + 1)
  /\ fetched' = popping.msg
  /\ popping' = [pc |-> "idle", msg |-> NoMessage]
  /\ UNCHANGED <<back, ring, pushing>>

-----------------------------------------------------------------------------
PushStep == PushSizes \/ PushStores \/ PushAdvances
PopStep == PopFindsNone \/ PopFindsSome \/ PopAssigns \/ PopAdvances

QueueNext == (\E m \in Message : PushCalled(m)) \/ PushStep \/ PopStep

QueueSpec == QueueInit /\ [][QueueNext]_queueVars

-----------------------------------------------------------------------------
(* Properties                                                              *)

QueueTypeOK ==
  /\ front \in 0 .. RingSize - 1 /\ back \in 0 .. RingSize - 1
  /\ ring \in [0 .. RingSize - 1 -> Message \cup {NoMessage}]
  /\ \/ pushing = [pc |-> "idle", msg |-> NoMessage]
     \/ pushing \in [pc : {"size", "store", "advance"}, msg : Message]
  /\ popping \in [pc : {"idle", "assign", "advance"}, msg : Message \cup {NoMessage}]
  /\ fetched \in Message \cup {NoMessage}

Fifo == INSTANCE BoundedFifo WITH
  Capacity <- RingSize - 1,
  content  <- [i \in 1 .. Size |-> ring[Wrap(front + i - 1)]],
  offered  <- pushing.msg,
  taken    <- fetched

(***************************************************************************)
(* However push() and pop() interleave, the queue is the bounded FIFO of   *)
(* module BoundedFifo: neither thread sees the other's half-done step.     *)
(***************************************************************************)
ImplementsFifo == Fifo!Spec

=============================================================================
